---- MODULE Spec2Model ----
(***************************************************************************)
(* Model of obsidian-weekly-tasks: the indentation-tree parser of          *)
(* Markdown list hunks (parseListHunkToTree), the checkbox fold            *)
(* (MDListNode.isAllChecked) and the two generations of the task           *)
(* aggregate: the Tasks class (addWeekTasks / addDailyTasks / addAll) and  *)
(* the TaskRoot objects merged by mergeTaskRoots; the temporal classifier   *)
(* (parseMDRootToTaskRoot, parseWeekStr, validateRange), the hunk splitter *)
(* and file pipeline (parseContentToListHunks, parseContentToTasks, the    *)
(* collection shown by showTasks), the visitor walk (MDListNode.visit),   *)
(* the Markdown generator, DateRange and Week over local-time dates, and   *)
(* the debounced collection of the plugin (collectTasksIfNeeded).          *)
(***************************************************************************)
EXTENDS Integers, Sequences, FiniteSets, Bags, TLC

\* ---------------------------------------------------------------- bounds
MaxLines == 3
MaxIndent == 4

NumObjs == 3
MaxNodes == 3
MaxPerAdd == 2
MaxSteps == 4

MaxRoots == 2
MaxContentLines == 4

MaxCalls == 2
MaxTicks == 3
MaxFiles == 2

\* ------------------------------------------------------------- constants
Undefined == "undefined"
NoNode == -1
NoLevel == -2
ROOT == 0
CHECKBOX_UNDONE == " "
DefaultIndentStep == 2
ErrMalformedIndentation == "Malformed indentation"
ErrIndentLevelIncreased == "Indent level increased"
NoError == ""
NoMatch == <<>>
NotParsed == "not parsed"
Thrown == "thrown"

\* The three indentation styles of a hunk: the characters of one indent unit.
IndentUnit ==
  [twoSpace |-> <<" ", " ">>, fourSpace |-> <<" ", " ", " ", " ">>, tab |-> <<"\t">>]

Styles == DOMAIN IndentUnit

\* Line contents the hunks are drawn from: plain text, an undone checkbox,
\* a done checkbox.
ContentSamples ==
  { <<"a">>, <<"[", " ", "]", " ", "a">>, <<"[", "x", "]", " ", "a">> }

VARIABLES
  lines,            \* parseListHunkToTree: the MDListLine[] argument
  indentStep,       \* parseListHunkToTree: const indentStep
  idx,              \* number of lines the for-of loop has consumed
  tree,             \* the MDListNode objects, keyed by line number; 0 is root
  lastNode,         \* parseListHunkToTree: let lastNode
  lastIndentLevel,  \* parseListHunkToTree: let lastIndentLevel
  pc,               \* "loop", "returned" or "thrown"
  err,              \* message of the thrown parse error
  style,            \* indentation style the current hunk was written in
  shape,            \* first accepted tree, rewritten in each style
  styled            \* per style: the parse result of the rewritten hunk

parseVars ==
  <<lines, indentStep, idx, tree, lastNode, lastIndentLevel, pc, err,
    style, shape, styled>>

VARIABLES
  lib,              \* generation of the aggregate in use: "Tasks" or "TaskRoot"
  tasksObjs,        \* the Tasks instances (weeklyData, dailyData, malformedMDs)
  roots,            \* the TaskRoot instances: lists of references into heap
  heap,             \* the TaskWeek / TaskDay objects the TaskRoots refer to
  nextNode,         \* next MDListNode handed to an insertion
  steps,            \* number of operations performed
  lastOp,           \* the operation performed last
  consumed,         \* instances that were merged into another one
  cleanHistory,     \* no instance was used again after it was merged away
  inserted,         \* bag of the <<period, task>> pairs inserted so far
  insertedMalformed,\* bag of the malformed entries inserted so far
  mergedInto,       \* per instance: the instances merged into it so far
  parsedRoots       \* TaskRoots filled by parseMDRootToTaskRoot

aggVars ==
  <<lib, tasksObjs, roots, heap, nextNode, steps, lastOp, consumed, cleanHistory,
    inserted, insertedMalformed, mergedInto, parsedRoots>>

VARIABLE
  zone              \* time zone of the environment (local time of new Date)

VARIABLES
  mdRoot,           \* parseMDRootToTaskRoot: the mdRoot argument
  classified,       \* parseMDRootToTaskRoot: what the call came to
  cpc               \* "idle", "call" or "done"

classVars == <<mdRoot, classified, cpc>>

VARIABLES
  fileContent,      \* parseContentToTasks: the content argument
  split,            \* parseContentToListHunks: content.split("\n")
  lineNo,           \* number of lines the splitter loop has consumed
  buffer,           \* parseContentToListHunks: const buffer
  hunks,            \* parseContentToListHunks: const hunks
  hunkNo,           \* number of hunks the for-of loop has consumed
  hunkResults,      \* per consumed hunk: what parseMDRootToTaskRoot returned
  fileTasks,        \* parseContentToTasks: const tasks
  returned,         \* what parseContentToTasks returned: <<>> or <<Tasks>>
  tasksMap,         \* collectTasksIfNeeded: the Tasks stored for the root
  shown,            \* showTasks: texts of the "Malformed contents" items
  rootReturned,     \* what the TaskRoot generation of parseContentToTasks returned
  kpc               \* position in the pipeline

contentVars ==
  <<fileContent, split, lineNo, buffer, hunks, hunkNo, hunkResults, fileTasks,
    returned, tasksMap, shown, rootReturned, kpc>>

VARIABLES
  rangeFrom,        \* new DateRange(from, to): first argument
  rangeTo,          \* new DateRange(from, to): second argument
  rangeMade,        \* outcome of the constructor call
  weekMade,         \* outcome of new Week(range): <<>> before the call
  ymdArg,           \* Week.fromYMD(date): the argument, <<>> before the call
  weekOfYMD,        \* outcome of Week.fromYMD(date)
  tgt,              \* range.doesInclude(tgt): the argument
  included,         \* what range.doesInclude(tgt) returned
  dpc               \* "idle", "call", "done" or the operation that ended

dateVars ==
  <<rangeFrom, rangeTo, rangeMade, weekMade, ymdArg, weekOfYMD, tgt, included,
    dpc>>

VARIABLES
  now,              \* getEpochTimeMillis(): the wall clock in milliseconds
  latestUpdateTimes,\* WTCPlugin.latestUpdateTimes, per root-path set
  tasksByRoot,      \* WTCPlugin.tasksMap, per root-path set
  calls,            \* per showTasks call: position, key and local variables
  completedAt,      \* history: when the last collection of a set completed
  decisions         \* history: what collectTasksIfNeeded decided per call

pluginVars ==
  <<now, latestUpdateTimes, tasksByRoot, calls, completedAt, decisions>>

restVars == <<zone, classVars, contentVars, dateVars, pluginVars>>

vars == <<parseVars, aggVars, restVars>>

\* ------------------------------------------------------------ MDListLine
MDListLine(indentCharLen, content) ==
  [indentCharLen |-> indentCharLen, content |-> content]

\* Mutant: the remainder check is dropped, the level is rounded down.
getIndentLevel_NoRemainderCheck(line, step) == line.indentCharLen \div step

getIndentLevel(line, step) ==
  IF line.indentCharLen % step # 0 THEN NoLevel ELSE line.indentCharLen \div step

RECURSIVE MinIndentLoop(_, _, _)
MinIndentLoop(ls, k, min) ==
  IF k > Len(ls) THEN min
  ELSE IF ls[k].indentCharLen = 0 THEN MinIndentLoop(ls, k + 1, min)
  ELSE IF min = -1 \/ ls[k].indentCharLen < min
       THEN MinIndentLoop(ls, k + 1, ls[k].indentCharLen)
       ELSE MinIndentLoop(ls, k + 1, min)

\* Mutant: the step is always the default width.
getMinimumIndentStep_Fixed(ls) == DefaultIndentStep

getMinimumIndentStep(ls) ==
  LET min == MinIndentLoop(ls, 1, -1)
  IN IF min = -1 THEN DefaultIndentStep ELSE min

\* ------------------------------------------------------------ MDListNode
\* REGEX_CHECKBOX = /^\[(.)] (.+)$/
parseCheckBox(text) ==
  IF Len(text) >= 5 /\ text[1] = "[" /\ text[3] = "]" /\ text[4] = " "
  THEN <<text[2], SubSeq(text, 5, Len(text))>>
  ELSE NoMatch

MDListNode(parent, text) ==
  LET checkboxInfo == parseCheckBox(text)
  IN IF checkboxInfo # NoMatch
     THEN [parent |-> parent, text |-> checkboxInfo[2],
           checkText |-> checkboxInfo[1], children |-> <<>>]
     ELSE [parent |-> parent, text |-> text,
           checkText |-> Undefined, children |-> <<>>]

MDListRootNode == MDListNode(NoNode, <<"R", "O", "O", "T">>)

toNode(line) == MDListNode(NoNode, line.content)

\* const hasUncheckedRecurse: boolean | undefined, as "true" | "false" | Undefined
RECURSIVE hasUncheckedRecurse(_, _)
hasUncheckedRecurse(t, node) ==
  IF \E k \in 1..Len(t[node].children) :
        hasUncheckedRecurse(t, t[node].children[k]) = "true"
  THEN "true"
  ELSE IF t[node].checkText = Undefined THEN Undefined
  ELSE IF t[node].checkText = CHECKBOX_UNDONE THEN "true" ELSE "false"

\* Mutant: a node without a checkbox of its own counts as done.
isAllChecked_CheckboxlessDone(t, n) ==
  LET hasUnchecked == hasUncheckedRecurse(t, n)
  IN IF hasUnchecked # Undefined /\ hasUnchecked = "true" THEN FALSE
     ELSE t[n].checkText # CHECKBOX_UNDONE

isAllChecked(t, n) ==
  LET hasUnchecked == hasUncheckedRecurse(t, n)
  IN IF hasUnchecked # Undefined /\ hasUnchecked = "true" THEN FALSE
     ELSE t[n].checkText # Undefined /\ t[n].checkText # CHECKBOX_UNDONE

\* shouldBeParent?.parent, taken n more times
RECURSIVE Ascend(_, _, _)
Ascend(t, node, n) ==
  IF n = 0 THEN node
  ELSE Ascend(t, IF node = NoNode THEN NoNode ELSE t[node].parent, n - 1)

\* Mutant: off by one, a jump of two levels passes.
IndentJump_OffByOne(indentLevel, last) == indentLevel - last > 2

IndentJump(indentLevel, last) == indentLevel - last > 1

\* Mutant: a line at the level of the last one becomes its child.
AttachPoint_SiblingUnderLast(t, last, lastLevel, indentLevel) ==
  IF indentLevel >= lastLevel THEN last
  ELSE Ascend(t, t[last].parent, lastLevel - indentLevel)

\* Mutant: the ascent starts at lastNode instead of lastNode.parent.
AttachPoint_FromLast(t, last, lastLevel, indentLevel) ==
  IF indentLevel = lastLevel THEN t[last].parent
  ELSE IF indentLevel > lastLevel THEN last
  ELSE Ascend(t, last, lastLevel - indentLevel)

\* The node the new line is attached to (NoNode: attached nowhere).
AttachPoint(t, last, lastLevel, indentLevel) ==
  IF indentLevel = lastLevel THEN t[last].parent
  ELSE IF indentLevel > lastLevel THEN last
  ELSE Ascend(t, t[last].parent, lastLevel - indentLevel)

\* Mutant: the node is put in front of the children of p.
Attach_Unshift(t, node, made, p) ==
  [n \in DOMAIN t \cup {node} |->
     IF n = node THEN [made EXCEPT !.parent = p]
     ELSE IF n = p THEN [t[n] EXCEPT !.children = <<node>> \o @]
     ELSE t[n]]

\* node.parent = p; p?.children.push(node)
Attach(t, node, made, p) ==
  [n \in DOMAIN t \cup {node} |->
     IF n = node THEN [made EXCEPT !.parent = p]
     ELSE IF n = p THEN [t[n] EXCEPT !.children = Append(@, node)]
     ELSE t[n]]

\* ------------------------------------------------------- YMD, DateRange
YMD(year, month, day) == [year |-> year, month |-> month, day |-> day]

YMDEquals(a, b) == a.year = b.year /\ a.month = b.month /\ a.day = b.day

DateRange(from, to) == [from |-> from, to |-> to]

DateRangeEquals(a, b) == YMDEquals(a.from, b.from) /\ YMDEquals(a.to, b.to)

\* The week ranges and the days the operations draw their periods from.
Weeks ==
  { DateRange(YMD(2025, 3, 3), YMD(2025, 3, 9)),
    DateRange(YMD(2025, 3, 10), YMD(2025, 3, 16)) }

Days == { YMD(2025, 3, 12) }

Objs == 1..NumObjs

SetMax(S) == CHOOSE x \in S : \A y \in S : y <= x

\* The n MDListNode objects handed to one insertion.
FreshNodes(n) == [k \in 1..n |-> nextNode + k - 1]

\* ----------------------------------------------------------- class Tasks
NewTasks == [weeklyData |-> <<>>, dailyData |-> <<>>, malformedMDs |-> <<>>]

WeeklyData(range) == [range |-> range, tasks |-> <<>>]

DailyData(date) == [date |-> date, tasks |-> <<>>]

\* Mutant: the entries handed in are not kept.
addMalformedMDs_Drop(this, malformedMDs) == this

addMalformedMDs(this, malformedMDs) ==
  [this EXCEPT !.malformedMDs = @ \o malformedMDs]

\* Mutant: the found flag is ignored, the entry is pushed every time.
addWeekTasks_AlwaysPush(this, range, ts) ==
  [this EXCEPT !.weeklyData = Append(@, [WeeklyData(range) EXCEPT !.tasks = @ \o ts])]

\* Mutant: the tasks of a known week are replaced instead of appended to.
addWeekTasks_Overwrite(this, range, ts) ==
  LET found == { i \in 1..Len(this.weeklyData) :
                   DateRangeEquals(this.weeklyData[i].range, range) }
  IN IF found = {}
     THEN [this EXCEPT !.weeklyData =
             Append(@, [WeeklyData(range) EXCEPT !.tasks = @ \o ts])]
     ELSE [this EXCEPT !.weeklyData[SetMax(found)].tasks = ts]

\* Mutant: the tasks are put in front of the ones already there.
addWeekTasks_Unshift(this, range, ts) ==
  LET found == { i \in 1..Len(this.weeklyData) :
                   DateRangeEquals(this.weeklyData[i].range, range) }
  IN IF found = {}
     THEN [this EXCEPT !.weeklyData =
             Append(@, [WeeklyData(range) EXCEPT !.tasks = @ \o ts])]
     ELSE [this EXCEPT !.weeklyData[SetMax(found)].tasks = ts \o @]

\* Mutant: a task the week already holds is not added again.
addWeekTasks_SkipKnown(this, range, ts) ==
  LET found == { i \in 1..Len(this.weeklyData) :
                   DateRangeEquals(this.weeklyData[i].range, range) }
  IN IF found = {}
     THEN [this EXCEPT !.weeklyData =
             Append(@, [WeeklyData(range) EXCEPT !.tasks = @ \o ts])]
     ELSE [this EXCEPT !.weeklyData[SetMax(found)].tasks =
             @ \o SelectSeq(ts, LAMBDA n :
                     \A k \in 1..Len(this.weeklyData[SetMax(found)].tasks) :
                        this.weeklyData[SetMax(found)].tasks[k] # n)]

addWeekTasks(this, range, ts) ==
  LET found == { i \in 1..Len(this.weeklyData) :
                   DateRangeEquals(this.weeklyData[i].range, range) }
  IN IF found = {}
     THEN [this EXCEPT !.weeklyData =
             Append(@, [WeeklyData(range) EXCEPT !.tasks = @ \o ts])]
     ELSE [this EXCEPT !.weeklyData[SetMax(found)].tasks = @ \o ts]

addDailyTasks(this, date, ts) ==
  LET found == { i \in 1..Len(this.dailyData) :
                   YMDEquals(this.dailyData[i].date, date) }
  IN IF found = {}
     THEN [this EXCEPT !.dailyData =
             Append(@, [DailyData(date) EXCEPT !.tasks = @ \o ts])]
     ELSE [this EXCEPT !.dailyData[SetMax(found)].tasks = @ \o ts]

RECURSIVE addAllWeekly(_, _, _)
addAllWeekly(this, weeklyData, k) ==
  IF k > Len(weeklyData) THEN this
  ELSE addAllWeekly(addWeekTasks(this, weeklyData[k].range, weeklyData[k].tasks),
                    weeklyData, k + 1)

RECURSIVE addAllDaily(_, _, _)
addAllDaily(this, dailyData, k) ==
  IF k > Len(dailyData) THEN this
  ELSE addAllDaily(addDailyTasks(this, dailyData[k].date, dailyData[k].tasks),
                   dailyData, k + 1)

\* Mutant: the daily data of the other instance is left out.
addAll_WeeksOnly(this, tasks) ==
  addAllWeekly(addMalformedMDs(this, tasks.malformedMDs), tasks.weeklyData, 1)

addAll(this, tasks) ==
  addAllDaily(
    addAllWeekly(addMalformedMDs(this, tasks.malformedMDs), tasks.weeklyData, 1),
    tasks.dailyData, 1)

\* -------------------------------------------------------- class TaskRoot
\* A TaskRoot holds references; the TaskWeek / TaskDay objects live in heap.
NewTaskRoot == [taskWeeks |-> <<>>, taskDays |-> <<>>, malformedMDs |-> <<>>]

TaskWeek(range, ts) == [range |-> range, tasks |-> ts]

TaskDay(date, ts) == [date |-> date, tasks |-> ts]

NoRef == 0

Store(rs, hp) == [roots |-> rs, heap |-> hp]

getTaskWeek(st, r, range) ==
  LET found == { i \in 1..Len(st.roots[r].taskWeeks) :
                   DateRangeEquals(st.heap[st.roots[r].taskWeeks[i]].range, range) }
  IN IF found = {} THEN NoRef
     ELSE st.roots[r].taskWeeks[CHOOSE i \in found : \A j \in found : i <= j]

getTaskDay(st, r, date) ==
  LET found == { i \in 1..Len(st.roots[r].taskDays) :
                   YMDEquals(st.heap[st.roots[r].taskDays[i]].date, date) }
  IN IF found = {} THEN NoRef
     ELSE st.roots[r].taskDays[CHOOSE i \in found : \A j \in found : i <= j]

\* The for-of loop over from.taskWeeks, started at its k-th element.
RECURSIVE mergeTaskWeeks(_, _, _, _)
mergeTaskWeeks(st, from, to, k) ==
  IF k > Len(st.roots[from].taskWeeks) THEN st
  ELSE LET fromTaskWeek == st.roots[from].taskWeeks[k]
           toTaskWeek == getTaskWeek(st, to, st.heap[fromTaskWeek].range)
       IN mergeTaskWeeks(
            IF toTaskWeek = NoRef
            THEN Store([st.roots EXCEPT ![to].taskWeeks = Append(@, fromTaskWeek)],
                       st.heap)
            ELSE Store(st.roots,
                       [st.heap EXCEPT ![toTaskWeek].tasks =
                          @ \o st.heap[fromTaskWeek].tasks]),
            from, to, k + 1)

\* The for-of loop over from.taskDays, started at its k-th element.
RECURSIVE mergeTaskDays(_, _, _, _)
mergeTaskDays(st, from, to, k) ==
  IF k > Len(st.roots[from].taskDays) THEN st
  ELSE LET fromTaskDay == st.roots[from].taskDays[k]
           toTaskDay == getTaskDay(st, to, st.heap[fromTaskDay].date)
       IN mergeTaskDays(
            IF toTaskDay = NoRef
            THEN Store([st.roots EXCEPT ![to].taskDays = Append(@, fromTaskDay)],
                       st.heap)
            ELSE Store(st.roots,
                       [st.heap EXCEPT ![toTaskDay].tasks =
                          @ \o st.heap[fromTaskDay].tasks]),
            from, to, k + 1)

mergeTaskRoots(st, from, to) ==
  mergeTaskDays(
    mergeTaskWeeks(
      Store([st.roots EXCEPT ![to].malformedMDs = @ \o st.roots[from].malformedMDs],
            st.heap),
      from, to, 1),
    from, to, 1)

Op(op, from, to) == [op |-> op, from |-> from, to |-> to]

NoOp == Op("none", 0, 0)

Period(kind, from, to) == [kind |-> kind, from |-> from, to |-> to]

WeekPeriod(range) == Period("week", range.from, range.to)

DayPeriod(date) == Period("day", date, date)

RECURSIVE SeqToBag(_)
SeqToBag(q) == IF q = <<>> THEN EmptyBag ELSE SetToBag({Head(q)}) (+) SeqToBag(Tail(q))

PairsOf(period, ts) == [k \in 1..Len(ts) |-> <<period, ts[k]>>]

\* ---------------------------------------------------- parseListHunkToTree
RawHunks ==
  UNION { [1..n -> { MDListLine(i, c) : i \in 0..MaxIndent, c \in ContentSamples }]
          : n \in 0..MaxLines }

StyledResult(status, structure) == [status |-> status, structure |-> structure]

\* State at entry of parseListHunkToTree(srcFile, ls).
EnterParse(ls) ==
  /\ lines' = ls
  /\ indentStep' = getMinimumIndentStep(ls)
  /\ idx' = 0
  /\ tree' = (ROOT :> MDListRootNode)
  /\ lastNode' = ROOT
  /\ lastIndentLevel' = -1
  /\ pc' = "loop"
  /\ err' = NoError

\* No aggregate is in use while a hunk is parsed.
IdleAgg ==
  /\ lib = "Tasks"
  /\ tasksObjs = [a \in Objs |-> NewTasks]
  /\ roots = [r \in Objs |-> NewTaskRoot]
  /\ heap = <<>>
  /\ nextNode = 1
  /\ steps = 0
  /\ lastOp = NoOp
  /\ consumed = {}
  /\ cleanHistory = TRUE
  /\ inserted = EmptyBag
  /\ insertedMalformed = EmptyBag
  /\ mergedInto = [a \in Objs |-> {}]
  /\ parsedRoots = {}

\* No root is being classified.
IdleClassify ==
  /\ mdRoot = (ROOT :> MDListRootNode)
  /\ classified = <<>>
  /\ cpc = "idle"

\* No file is being read.
IdleContent ==
  /\ fileContent = <<>>
  /\ split = <<>>
  /\ lineNo = 0
  /\ buffer = <<>>
  /\ hunks = <<>>
  /\ hunkNo = 0
  /\ hunkResults = <<>>
  /\ fileTasks = NewTasks
  /\ returned = <<>>
  /\ tasksMap = <<>>
  /\ shown = <<>>
  /\ rootReturned = <<>>
  /\ kpc = "idle"

\* No DateRange is being constructed.
IdleDate ==
  /\ rangeFrom = YMD(1970, 1, 1)
  /\ rangeTo = YMD(1970, 1, 1)
  /\ rangeMade = <<>>
  /\ weekMade = <<>>
  /\ ymdArg = <<>>
  /\ weekOfYMD = <<>>
  /\ tgt = <<>>
  /\ included = <<>>
  /\ dpc = "idle"

\* rootPaths.join(";") of the code blocks on the page
RootPathSets == {"journal", "journal;projects"}

CallIds == 1..MaxCalls

\* A showTasks call that has not begun.
NoCall == [pc |-> "idle", key |-> "", tasks |-> <<>>, read |-> 0]

\* The plugin as constructed: both maps empty, no call made.
NewPlugin ==
  /\ latestUpdateTimes = [k \in RootPathSets |-> <<>>]
  /\ tasksByRoot = [k \in RootPathSets |-> <<>>]
  /\ calls = [c \in CallIds |-> NoCall]
  /\ completedAt = [k \in RootPathSets |-> <<>>]
  /\ decisions = [c \in CallIds |-> <<>>]

IdlePlugin ==
  /\ now = 0
  /\ NewPlugin

IdleRest ==
  /\ zone = "UTC"
  /\ IdleClassify
  /\ IdleContent
  /\ IdleDate
  /\ IdlePlugin

InitParse ==
  /\ IdleAgg
  /\ IdleRest
  /\ lines \in RawHunks
  /\ indentStep = getMinimumIndentStep(lines)
  /\ idx = 0
  /\ tree = (ROOT :> MDListRootNode)
  /\ lastNode = ROOT
  /\ lastIndentLevel = -1
  /\ pc = "loop"
  /\ err = NoError
  /\ style = "raw"
  /\ shape = <<>>
  /\ styled = [s \in Styles |-> StyledResult(NotParsed, <<>>)]

Structure(t) ==
  [n \in DOMAIN t |-> [parent |-> t[n].parent, children |-> t[n].children]]

Throw(msg) ==
  /\ pc' = Thrown
  /\ err' = msg
  /\ styled' = IF style \in Styles THEN [styled EXCEPT ![style] = StyledResult(Thrown, <<>>)]
                ELSE styled
  /\ UNCHANGED <<lines, indentStep, idx, tree, lastNode, lastIndentLevel, style, shape, aggVars, restVars>>

\* One iteration of the for-of loop.
ParseLine ==
  /\ pc = "loop"
  /\ idx < Len(lines)
  /\ LET line == lines[idx + 1]
         node == idx + 1
         indentLevel == getIndentLevel(line, indentStep)
     IN IF indentLevel = NoLevel THEN Throw(ErrMalformedIndentation)
        ELSE IF IndentJump(indentLevel, lastIndentLevel)
             THEN Throw(ErrIndentLevelIncreased)
        ELSE /\ tree' = Attach(tree, node, toNode(line),
                               AttachPoint(tree, lastNode, lastIndentLevel, indentLevel))
             /\ lastIndentLevel' = indentLevel
             /\ lastNode' = node
             /\ idx' = idx + 1
             /\ UNCHANGED <<lines, indentStep, pc, err, style, shape, styled, aggVars, restVars>>

\* return root
ParseReturn ==
  /\ pc = "loop"
  /\ idx = Len(lines)
  /\ pc' = "returned"
  /\ shape' = IF style = "raw" THEN <<tree>> ELSE shape
  /\ styled' = IF style \in Styles
               THEN [styled EXCEPT ![style] = StyledResult("returned", <<Structure(tree)>>)]
               ELSE styled
  /\ UNCHANGED <<lines, indentStep, idx, tree, lastNode, lastIndentLevel, err, style,
               aggVars, restVars>>

\* Depth of a node below the sentinel root (root = 0).
RECURSIVE Depth(_, _)
Depth(t, n) == IF t[n].parent = NoNode THEN 0 ELSE 1 + Depth(t, t[n].parent)

\* Content of the line a node was made from.
LineContent(nd) ==
  IF nd.checkText = Undefined THEN nd.text
  ELSE <<"[", nd.checkText, "]", " ">> \o nd.text

RECURSIVE Repeat(_, _)
Repeat(unit, n) == IF n = 0 THEN <<>> ELSE unit \o Repeat(unit, n - 1)

\* The accepted tree t written as a hunk in style s: one line per node, in
\* line order, indented by one indent unit per level.
WriteHunk(t, s) ==
  [k \in 1..(Cardinality(DOMAIN t) - 1) |->
     MDListLine(Len(Repeat(IndentUnit[s], Depth(t, k) - 1)), LineContent(t[k]))]

\* Parse the same tree shape again, written in style s.
Restyle(s) ==
  /\ pc \in {"returned", Thrown}
  /\ shape # <<>>
  /\ styled[s].status = NotParsed
  /\ style' = s
  /\ EnterParse(WriteHunk(shape[1], s))
  /\ UNCHANGED <<shape, styled, aggVars, restVars>>

NextParse ==
  \/ ParseLine
  \/ ParseReturn
  \/ \E s \in Styles : Restyle(s)

Init == InitParse

Next == NextParse

Spec == Init /\ [][Next]_vars

\* ------------------------------------------------ aggregate operations
\* No hunk is being parsed while aggregates are built and merged.
IdleParse ==
  /\ lines = <<>>
  /\ indentStep = DefaultIndentStep
  /\ idx = 0
  /\ tree = (ROOT :> MDListRootNode)
  /\ lastNode = ROOT
  /\ lastIndentLevel = -1
  /\ pc = "idle"
  /\ err = NoError
  /\ style = "raw"
  /\ shape = <<>>
  /\ styled = [s \in Styles |-> StyledResult(NotParsed, <<>>)]

InitAgg ==
  /\ IdleParse
  /\ IdleRest
  /\ lib \in {"Tasks", "TaskRoot"}
  /\ tasksObjs = [a \in Objs |-> NewTasks]
  /\ roots = [r \in Objs |-> NewTaskRoot]
  /\ heap = <<>>
  /\ nextNode = 1
  /\ steps = 0
  /\ lastOp = NoOp
  /\ consumed = {}
  /\ cleanHistory = TRUE
  /\ inserted = EmptyBag
  /\ insertedMalformed = EmptyBag
  /\ mergedInto = [a \in Objs |-> {}]
  /\ parsedRoots = {}

\* Instances are interchangeable: they are taken into use in index order.
InUse(a) ==
  ~ (/\ tasksObjs[a] = NewTasks
     /\ roots[a] = NewTaskRoot
     /\ a \notin consumed
     /\ mergedInto[a] = {})

Usable(a) == IF a = 1 THEN TRUE ELSE InUse(a - 1)

\* Bookkeeping of an insertion of the pairs ps / the malformed entries ms
\* into instance a.
NoteInsert(op, a, ps, ms) ==
  /\ steps' = steps + 1
  /\ lastOp' = Op(op, 0, a)
  /\ nextNode' = nextNode + Len(ps) + Len(ms)
  /\ cleanHistory' = (cleanHistory /\ a \notin consumed)
  /\ inserted' = inserted (+) SeqToBag(ps)
  /\ insertedMalformed' = insertedMalformed (+) SeqToBag(ms)
  /\ UNCHANGED <<consumed, mergedInto>>

\* Bookkeeping of a merge of instance from into instance to.
NoteMerge(op, from, to) ==
  /\ steps' = steps + 1
  /\ lastOp' = Op(op, from, to)
  /\ cleanHistory' = (cleanHistory /\ from \notin consumed /\ to \notin consumed)
  /\ consumed' = consumed \cup {from}
  /\ mergedInto' = [mergedInto EXCEPT ![to] = @ \cup {from}]
  /\ UNCHANGED <<nextNode, inserted, insertedMalformed>>

\* tasks.addWeekTasks(range, ...n nodes)
AddWeekTasks(a, range, n) ==
  /\ lib = "Tasks" /\ steps < MaxSteps /\ nextNode + n - 1 <= MaxNodes
  /\ Usable(a)
  /\ tasksObjs' = [tasksObjs EXCEPT ![a] = addWeekTasks(@, range, FreshNodes(n))]
  /\ NoteInsert("addWeekTasks", a, PairsOf(WeekPeriod(range), FreshNodes(n)), <<>>)
  /\ UNCHANGED <<lib, roots, heap, parsedRoots, parseVars, restVars>>

\* tasks.addDailyTasks(date, ...n nodes)
AddDailyTasks(a, date, n) ==
  /\ lib = "Tasks" /\ steps < MaxSteps /\ nextNode + n - 1 <= MaxNodes
  /\ Usable(a)
  /\ tasksObjs' = [tasksObjs EXCEPT ![a] = addDailyTasks(@, date, FreshNodes(n))]
  /\ NoteInsert("addDailyTasks", a, PairsOf(DayPeriod(date), FreshNodes(n)), <<>>)
  /\ UNCHANGED <<lib, roots, heap, parsedRoots, parseVars, restVars>>

\* tasks.addMalformedMDs(new MalformedMD(reason, node))
AddMalformedMDs(a) ==
  /\ lib = "Tasks" /\ steps < MaxSteps /\ nextNode <= MaxNodes
  /\ Usable(a)
  /\ tasksObjs' = [tasksObjs EXCEPT ![a] = addMalformedMDs(@, FreshNodes(1))]
  /\ NoteInsert("addMalformedMDs", a, <<>>, FreshNodes(1))
  /\ UNCHANGED <<lib, roots, heap, parsedRoots, parseVars, restVars>>

\* to.addAll(from)
AddAll(from, to) ==
  /\ lib = "Tasks" /\ steps < MaxSteps /\ from # to
  /\ Usable(from) /\ Usable(to)
  /\ tasksObjs' = [tasksObjs EXCEPT ![to] = addAll(@, tasksObjs[from])]
  /\ NoteMerge("addAll", from, to)
  /\ UNCHANGED <<lib, roots, heap, parsedRoots, parseVars, restVars>>

\* A TaskRoot is filled by parseMDRootToTaskRoot before it is merged anywhere.
UnderConstruction(r) == r \notin consumed /\ mergedInto[r] = {}

\* parseMDRootToTaskRoot, a root-level node that is a week with n children
ParseWeekRoot(r, range, n) ==
  /\ lib = "TaskRoot" /\ steps < MaxSteps /\ nextNode + n - 1 <= MaxNodes
  /\ Usable(r) /\ UnderConstruction(r)
  /\ heap' = Append(heap, TaskWeek(range, FreshNodes(n)))
  /\ roots' = [roots EXCEPT ![r].taskWeeks = Append(@, Len(heap) + 1)]
  /\ parsedRoots' = parsedRoots \cup {r}
  /\ NoteInsert("parseWeek", r, PairsOf(WeekPeriod(range), FreshNodes(n)), <<>>)
  /\ UNCHANGED <<lib, tasksObjs, parseVars, restVars>>

\* parseMDRootToTaskRoot, a root-level node that is a day with n children
ParseDayRoot(r, date, n) ==
  /\ lib = "TaskRoot" /\ steps < MaxSteps /\ nextNode + n - 1 <= MaxNodes
  /\ Usable(r) /\ UnderConstruction(r)
  /\ heap' = Append(heap, TaskDay(date, FreshNodes(n)))
  /\ roots' = [roots EXCEPT ![r].taskDays = Append(@, Len(heap) + 1)]
  /\ parsedRoots' = parsedRoots \cup {r}
  /\ NoteInsert("parseDay", r, PairsOf(DayPeriod(date), FreshNodes(n)), <<>>)
  /\ UNCHANGED <<lib, tasksObjs, parseVars, restVars>>

\* parseMDRootToTaskRoot, a root-level node that is neither
ParseMalformedRoot(r) ==
  /\ lib = "TaskRoot" /\ steps < MaxSteps /\ nextNode <= MaxNodes
  /\ Usable(r) /\ UnderConstruction(r)
  /\ roots' = [roots EXCEPT ![r].malformedMDs = Append(@, nextNode)]
  /\ parsedRoots' = parsedRoots \cup {r}
  /\ NoteInsert("parseMalformed", r, <<>>, FreshNodes(1))
  /\ UNCHANGED <<lib, tasksObjs, heap, parseVars, restVars>>

\* mergeTaskRoots(from, to)
MergeTaskRoots(from, to) ==
  /\ lib = "TaskRoot" /\ steps < MaxSteps /\ from # to
  /\ Usable(from) /\ Usable(to)
  /\ LET st == mergeTaskRoots(Store(roots, heap), from, to)
     IN roots' = st.roots /\ heap' = st.heap
  /\ NoteMerge("mergeTaskRoots", from, to)
  /\ UNCHANGED <<lib, tasksObjs, parsedRoots, parseVars, restVars>>

NextAgg ==
  \/ \E a \in Objs : \E range \in Weeks : \E n \in 0..MaxPerAdd : AddWeekTasks(a, range, n)
  \/ \E a \in Objs : \E date \in Days : \E n \in 0..MaxPerAdd : AddDailyTasks(a, date, n)
  \/ \E a \in Objs : AddMalformedMDs(a)
  \/ \E from \in Objs : \E to \in Objs : AddAll(from, to)
  \/ \E r \in Objs : \E range \in Weeks : \E n \in 0..MaxPerAdd : ParseWeekRoot(r, range, n)
  \/ \E r \in Objs : \E date \in Days : \E n \in 0..MaxPerAdd : ParseDayRoot(r, date, n)
  \/ \E r \in Objs : ParseMalformedRoot(r)
  \/ \E from \in Objs : \E to \in Objs : MergeTaskRoots(from, to)

SpecAgg == InitAgg /\ [][NextAgg]_vars

\* ------------------------------------------------------------------------
\* Properties of the parser
\* ------------------------------------------------------------------------

\* C1: the hunk of one tree shape written with 2-space, with 4-space and with
\* one-tab indentation is accepted in each style, and the three trees have
\* the same parent/child structure and the same child order.
C1_StylesParseAlike ==
  \A s1 \in Styles : \A s2 \in Styles :
    (styled[s1].status # NotParsed /\ styled[s2].status # NotParsed)
      => /\ styled[s1].status = "returned"
         /\ styled[s1].structure = styled[s2].structure

\* All three styles have been parsed, for a shape three levels deep.
C1_Witness ==
  /\ \A s \in Styles : styled[s].status = "returned"
  /\ \E n \in DOMAIN shape[1] : Depth(shape[1], n) = 3

\* Level of line k of the current hunk, from its raw indent.
LevelOfLine(k) == IF k = 0 THEN -1 ELSE lines[k].indentCharLen \div indentStep

Aligned(k) == lines[k].indentCharLen % indentStep = 0

\* C2: when the loop reaches a line at level L after a line at level P
\* (P = -1 before the first line): L - P >= 2 makes the parse fail with the
\* indent-jump error and return no tree; L - P = 1 makes the line's node the
\* last child of the previous line's node and the loop goes on.
C2_JumpRule ==
  [][ (pc = "loop" /\ idx < Len(lines) /\ Aligned(idx + 1))
        => LET L == LevelOfLine(idx + 1)
               P == LevelOfLine(idx)
           IN /\ (L - P >= 2) =>
                    (pc' = Thrown /\ err' = ErrIndentLevelIncreased)
              /\ (L - P = 1) =>
                    /\ pc' = "loop"
                    /\ idx' = idx + 1
                    /\ tree'[idx + 1].parent = idx
                    /\ tree'[idx].children = Append(tree[idx].children, idx + 1)
    ]_vars

\* A line was accepted as the child of its predecessor and the next line
\* jumped two levels or more.
C2_Witness ==
  /\ pc = Thrown
  /\ err = ErrIndentLevelIncreased
  /\ idx >= 2
  /\ tree[idx].parent = idx - 1
  /\ LevelOfLine(idx + 1) - LevelOfLine(idx) >= 2

PositiveIndents(ls) == { ls[k].indentCharLen : k \in 1..Len(ls) } \ {0}

SetMin(S) == CHOOSE x \in S : \A y \in S : x <= y

Misaligned == { k \in 1..Len(lines) : ~ Aligned(k) }

JumpBefore(k) ==
  \E j \in 1..(k - 1) : LevelOfLine(j) - LevelOfLine(j - 1) >= 2

ParseEnded == pc \in {"returned", Thrown}

StepIsMinimumPositiveIndent ==
  indentStep = IF PositiveIndents(lines) = {} THEN 2 ELSE SetMin(PositiveIndents(lines))

\* C3 as claimed: indentStep is the minimum positive raw indent (2 when there
\* is none) and every hunk with a line whose raw indent is not a multiple of
\* indentStep fails with the malformed-indentation error.
C3_AlwaysMalformedIndentation ==
  /\ StepIsMinimumPositiveIndent
  /\ (ParseEnded /\ Misaligned # {})
       => (pc = Thrown /\ err = ErrMalformedIndentation)

\* C3 as amended: indentStep is the minimum positive raw indent (2 when there
\* is none) and every hunk with a line whose raw indent is not a multiple of
\* indentStep fails: with the malformed-indentation error when no line
\* before the first such line jumps two levels or more, with the indent-jump
\* error otherwise.
C3_FailsOnMisalignedLine ==
  /\ StepIsMinimumPositiveIndent
  /\ (ParseEnded /\ Misaligned # {})
       => /\ pc = Thrown
          /\ err = IF JumpBefore(SetMin(Misaligned)) THEN ErrIndentLevelIncreased
                   ELSE ErrMalformedIndentation

\* A hunk whose third line is misaligned failed there, after two accepted lines.
C3_Witness ==
  /\ pc = Thrown
  /\ err = ErrMalformedIndentation
  /\ idx = 2
  /\ ~ Aligned(3)
  /\ indentStep = 3

AncestorsOrSelf(t, m) == { n \in DOMAIN t : \E k \in 0..Depth(t, m) : Ascend(t, m, k) = n }

SubtreeOf(t, n) == { m \in DOMAIN t : n \in AncestorsOrSelf(t, m) }

IsDone(nd) == nd.checkText # Undefined /\ nd.checkText # CHECKBOX_UNDONE

IsUndone(nd) == nd.checkText = CHECKBOX_UNDONE

\* C4: isAllChecked(n) is true exactly when n carries a done checkbox and no
\* node of n's subtree, n included and at any depth, carries an undone one.
C4_AllCheckedIffDoneAndNoUndoneBelow ==
  pc = "returned" =>
    \A n \in DOMAIN tree :
      isAllChecked(tree, n)
        <=> (IsDone(tree[n]) /\ \A m \in SubtreeOf(tree, n) : ~ IsUndone(tree[m]))

\* A done node whose only undone descendant sits below a checkbox-less child.
C4_Witness ==
  /\ pc = "returned"
  /\ \E n \in DOMAIN tree : \E c \in DOMAIN tree : \E g \in DOMAIN tree :
       /\ IsDone(tree[n]) /\ tree[c].parent = n /\ tree[g].parent = c
       /\ tree[c].checkText = Undefined /\ IsUndone(tree[g])
       /\ ~ isAllChecked(tree, n)

\* ------------------------------------------------------------------------
\* Properties of the aggregates
\* ------------------------------------------------------------------------

Periods ==
  { WeekPeriod(range) : range \in Weeks } \cup { DayPeriod(date) : date \in Days }

\* The period entries of a Tasks instance, weeks first: <<period, tasks>>.
TasksEntries(t) ==
  [i \in 1..Len(t.weeklyData) |->
     <<WeekPeriod(t.weeklyData[i].range), t.weeklyData[i].tasks>>]
  \o [i \in 1..Len(t.dailyData) |->
     <<DayPeriod(t.dailyData[i].date), t.dailyData[i].tasks>>]

\* The period entries a TaskRoot refers to, weeks first: <<period, tasks>>.
RootEntries(r) ==
  [i \in 1..Len(roots[r].taskWeeks) |->
     <<WeekPeriod(heap[roots[r].taskWeeks[i]].range), heap[roots[r].taskWeeks[i]].tasks>>]
  \o [i \in 1..Len(roots[r].taskDays) |->
     <<DayPeriod(heap[roots[r].taskDays[i]].date), heap[roots[r].taskDays[i]].tasks>>]

Entries(a) == IF lib = "Tasks" THEN TasksEntries(tasksObjs[a]) ELSE RootEntries(a)

MalformedOf(a) ==
  IF lib = "Tasks" THEN tasksObjs[a].malformedMDs ELSE roots[a].malformedMDs

PeriodsDistinct(es) ==
  \A i \in 1..Len(es) : \A j \in 1..Len(es) : i # j => es[i][1] # es[j][1]

\* Instances that started empty and were only inserted into and merged into.
Aggregates == IF lib = "Tasks" THEN Objs ELSE Objs \ parsedRoots

\* C5: after any sequence of insertions and merges that starts from an empty
\* aggregate, no two period entries of the aggregate have equal Temporal
\* values (equal week range or equal day).
C5_PeriodsUnique == \A a \in Aggregates : PeriodsDistinct(Entries(a))

\* An aggregate received the same week from two sides and holds it once.
C5_Witness ==
  /\ lastOp.op \in {"addAll", "mergeTaskRoots"}
  /\ \E i \in 1..Len(Entries(lastOp.to)) : \E j \in 1..Len(Entries(lastOp.from)) :
       /\ Entries(lastOp.to)[i][1] = Entries(lastOp.from)[j][1]
       /\ Len(Entries(lastOp.to)[i][2]) > Len(Entries(lastOp.from)[j][2])
  /\ lastOp.to \in Aggregates
  /\ mergedInto[lastOp.to] = {1, 2}

RECURSIVE SumLen(_)
SumLen(es) == IF es = <<>> THEN 0 ELSE Len(Head(es)[2]) + SumLen(Tail(es))

EntriesOf(es, p) == SelectSeq(es, LAMBDA e : e[1] = p)

TaskCount(es, p) == SumLen(EntriesOf(es, p))

IsMergeStep(op) == lastOp'.op = op /\ steps' = steps + 1

\* C6: merging from into to neither de-duplicates tasks nor duplicates period
\* entries: for every period the number of tasks under it in the result is
\* the number under it in to before plus the number under it in from, and the
\* period appears exactly once.
C6_MergeAddsTaskCounts ==
  [][ IsMergeStep("addAll") =>
        \A p \in Periods :
          LET before == TasksEntries(tasksObjs[lastOp'.to])
              from == TasksEntries(tasksObjs[lastOp'.from])
              after == TasksEntries(tasksObjs'[lastOp'.to])
          IN /\ TaskCount(after, p) = TaskCount(before, p) + TaskCount(from, p)
             /\ Len(EntriesOf(after, p)) =
                  IF Len(EntriesOf(before, p)) + Len(EntriesOf(from, p)) > 0 THEN 1 ELSE 0
    ]_vars

\* Two tasks plus one task of the same week: one week entry, three tasks.
C6_Witness ==
  /\ lastOp.op = "addAll"
  /\ Len(tasksObjs[lastOp.to].weeklyData) = 1
  /\ Len(tasksObjs[lastOp.to].weeklyData[1].tasks) = 3
  /\ Len(tasksObjs[lastOp.from].weeklyData) = 1
  /\ Len(tasksObjs[lastOp.from].weeklyData[1].tasks) = 1
  /\ tasksObjs[lastOp.from].weeklyData[1].range = tasksObjs[lastOp.to].weeklyData[1].range

KeysOf(es) == [i \in 1..Len(es) |-> es[i][1]]

RECURSIVE Concat(_)
Concat(qs) == IF qs = <<>> THEN <<>> ELSE Head(qs) \o Concat(Tail(qs))

TasksUnder(es, p) == Concat([i \in 1..Len(EntriesOf(es, p)) |-> EntriesOf(es, p)[i][2]])

WeekEntries(t) == SubSeq(TasksEntries(t), 1, Len(t.weeklyData))

DayEntries(t) == SubSeq(TasksEntries(t), Len(t.weeklyData) + 1, Len(TasksEntries(t)))

\* The periods of es, followed by those of more that es does not have.
FirstContributed(es, more) ==
  KeysOf(es) \o SelectSeq(KeysOf(more), LAMBDA p : \A i \in 1..Len(es) : es[i][1] # p)

IsRepeatedMerge == lastOp.op = "addAll" /\ lastOp' = lastOp /\ steps' = steps + 1

HoldsNothing(t) ==
  /\ t.malformedMDs = <<>>
  /\ \A i \in 1..Len(TasksEntries(t)) : TasksEntries(t)[i][2] = <<>>

\* C8 as claimed: merging B into A a second time leaves A as it was after the
\* first merge.
C8_MergeIdempotent ==
  [][ IsRepeatedMerge => tasksObjs'[lastOp.to] = tasksObjs[lastOp.to] ]_vars

\* C8 as amended: merging B into A a second time leaves the period entries
\* of A as after the first merge (same periods, same order) and appends
\* every task and every malformed entry of B once more; A is the same as
\* after the first merge only when B holds no task and no malformed entry.
C8_MergeIdempotentOnPeriodsOnly ==
  [][ IsRepeatedMerge =>
        LET to == tasksObjs[lastOp.to]
            from == tasksObjs[lastOp.from]
            after == tasksObjs'[lastOp.to]
        IN /\ KeysOf(TasksEntries(after)) = KeysOf(TasksEntries(to))
           /\ \A i \in 1..Len(TasksEntries(to)) :
                TasksEntries(after)[i][2] =
                  TasksEntries(to)[i][2] \o TasksUnder(TasksEntries(from), TasksEntries(to)[i][1])
           /\ after.malformedMDs = to.malformedMDs \o from.malformedMDs
           /\ (after = to) <=> HoldsNothing(from)
    ]_vars

\* The same instance was merged twice: one of its tasks stands twice under
\* the period.
C8_Witness ==
  /\ lastOp.op = "addAll"
  /\ \E i \in 1..Len(tasksObjs[lastOp.to].weeklyData) :
       LET ts == tasksObjs[lastOp.to].weeklyData[i].tasks
       IN \E j \in 1..Len(ts) : \E k \in 1..Len(ts) : j # k /\ ts[j] = ts[k]

Pairs(es) == Concat([i \in 1..Len(es) |-> PairsOf(es[i][1], es[i][2])])

Membership(a) == SeqToBag(Pairs(Entries(a)))

MalformedMembership(a) == SeqToBag(MalformedOf(a))

RECURSIVE MembershipSum(_)
MembershipSum(S) ==
  IF S = {} THEN EmptyBag
  ELSE LET x == CHOOSE y \in S : TRUE IN Membership(x) (+) MembershipSum(S \ {x})

RECURSIVE MalformedSum(_)
MalformedSum(S) ==
  IF S = {} THEN EmptyBag
  ELSE LET x == CHOOSE y \in S : TRUE IN MalformedMembership(x) (+) MalformedSum(S \ {x})

\* C9: whatever the order and the grouping in which partial aggregates are
\* merged, each one once, the instances not merged away hold together
\* exactly the <<period, task>> pairs and the malformed entries that were
\* inserted; the final aggregate holds all of them.
C9_MembershipOrderIndependent ==
  cleanHistory =>
    /\ MembershipSum(Objs \ consumed) = inserted
    /\ MalformedSum(Objs \ consumed) = insertedMalformed

\* Two partial aggregates were merged, one after the other, into a third
\* instance, or one into the other and the result into the third.
C9_Witness ==
  /\ cleanHistory
  /\ Cardinality(consumed) = 2
  /\ \E a \in Objs \ consumed : BagCardinality(Membership(a)) >= 2
  /\ BagCardinality(inserted) >= 2

RootContent(r) == [entries |-> RootEntries(r), malformedMDs |-> roots[r].malformedMDs]

\* C10: mergeTaskRoots(from, to) leaves from unchanged, and from stays
\* unchanged when further roots are merged into the same to.
C10_MergeLeavesFromUnchanged ==
  [][ IsMergeStep("mergeTaskRoots") =>
        \A r \in ({lastOp'.from} \cup mergedInto[lastOp'.to]) \ {lastOp'.to} :
          RootContent(r)' = RootContent(r)
    ]_vars

\* ------------------------------------------------- local dates (datetime)
\* Time zones the program may run in.
TimeZones == {"Asia/Tokyo", "America/New_York", "Europe/London"}

\* new Date(year, month - 1, day): local midnight of the date, as the number
\* of the local calendar day counted from 1970/01/01.
toDate(date) ==
  LET y == IF date.month <= 2 THEN date.year - 1 ELSE date.year
      era == y \div 400
      yoe == y - era * 400
      mp == IF date.month > 2 THEN date.month - 3 ELSE date.month + 9
      doy == (153 * mp + 2) \div 5 + date.day - 1
      doe == yoe * 365 + yoe \div 4 - yoe \div 100 + doy
  IN era * 146097 + doe - 719468

\* YMD.fromDate: getFullYear(), getMonth() + 1, getDate() of a local day.
fromDate(m) ==
  LET z == m + 719468
      era == z \div 146097
      doe == z - era * 146097
      yoe == (doe - doe \div 1460 + doe \div 36524 - doe \div 146096) \div 365
      doy == doe - (365 * yoe + yoe \div 4 - yoe \div 100)
      mp == (5 * doy + 2) \div 153
      day == doy - (153 * mp + 2) \div 5 + 1
      month == IF mp < 10 THEN mp + 3 ELSE mp - 9
      year == yoe + era * 400 + (IF month <= 2 THEN 1 ELSE 0)
  IN YMD(year, month, day)

\* Date.prototype.getDay of a local day: 0 is Sunday, 1970/01/01 a Thursday.
getDay(d) == (d + 4) % 7

\* Hours the local clock is ahead of UTC at local midnight of day d, for
\* days from autumn 2024 to autumn 2025: daylight saving time begins on
\* 2025/03/09 at 02:00 in New York and on 2025/03/30 at 01:00 in London.
UtcOffset(z, d) ==
  IF z = "Asia/Tokyo" THEN 9
  ELSE IF z = "America/New_York"
       THEN (IF d > toDate(YMD(2025, 3, 9)) THEN -4 ELSE -5)
  ELSE IF z = "Europe/London"
       THEN (IF d > toDate(YMD(2025, 3, 30)) THEN 1 ELSE 0)
  ELSE 0

\* Date.prototype.getTime of local midnight of day d, in hours since the epoch.
getTime(z, d) == d * 24 - UtcOffset(z, d)

\* Math.floor(date.toDate().getTime() / (24 * 60 * 60 * 1000))
toEpochDate(z, date) == getTime(z, toDate(date)) \div 24

compare(this, another) ==
  IF this.year - another.year # 0 THEN this.year - another.year
  ELSE IF this.month - another.month # 0 THEN this.month - another.month
  ELSE this.day - another.day

earlierThan(this, another) == compare(this, another) < 0

laterThan(this, another) == compare(this, another) > 0

\* Outcome of a constructor call: thrown, or the object made.
Made(value) == [thrown |-> FALSE, value |-> <<value>>]

Failed == [thrown |-> TRUE, value |-> <<>>]

\* new DateRange(from, to) in time zone z
NewDateRange(z, from, to) ==
  IF toEpochDate(z, from) > toEpochDate(z, to) THEN Failed
  ELSE Made(DateRange(from, to))

\* The dates the ranges are drawn from: around the turn of a year, the end
\* of February, two weeks of March and the week-end of the change to summer
\* time.
DateSamples ==
  { YMD(2024, 12, 31), YMD(2025, 1, 1), YMD(2025, 2, 28), YMD(2025, 3, 1),
    YMD(2025, 3, 3), YMD(2025, 3, 9), YMD(2025, 3, 10), YMD(2025, 3, 16),
    YMD(2025, 3, 29), YMD(2025, 3, 30), YMD(2025, 3, 31) }

InitDate ==
  /\ IdleParse
  /\ IdleAgg
  /\ IdleClassify
  /\ IdleContent
  /\ IdlePlugin
  /\ zone \in TimeZones
  /\ rangeFrom \in DateSamples
  /\ rangeTo \in DateSamples
  /\ rangeMade = <<>>
  /\ weekMade = <<>>
  /\ ymdArg = <<>>
  /\ weekOfYMD = <<>>
  /\ tgt = <<>>
  /\ included = <<>>
  /\ dpc = "call"

\* new DateRange(rangeFrom, rangeTo)
ConstructDateRange ==
  /\ dpc = "call"
  /\ rangeMade' = <<NewDateRange(zone, rangeFrom, rangeTo)>>
  /\ dpc' = "done"
  /\ UNCHANGED <<rangeFrom, rangeTo, weekMade, ymdArg, weekOfYMD, tgt, included,
                 zone, parseVars, aggVars, classVars, contentVars,
                 pluginVars>>

WEEK_BEGIN_DAY == 1
WEEK_END_DAY == 0

\* d.setDate(d.getDate() + days) on local midnight, then YMD.fromDate(d)
plusDays(date, days) == fromDate(toDate(date) + days)

\* Mutant: the end of the range is not compared.
isWeekRange_BeginOnly(range) == getDay(toDate(range.from)) = WEEK_BEGIN_DAY

\* Week.isWeekRange
isWeekRange(range) ==
  IF getDay(toDate(range.from)) # WEEK_BEGIN_DAY THEN FALSE
  ELSE YMDEquals(range.to, plusDays(range.from, 6))

\* new Week(range): throws "Illegal range" unless the range is a week
NewWeek(range) == IF ~isWeekRange(range) THEN Failed ELSE Made([range |-> range])

\* the while loop of Week.fromYMD: one day back until the day is a Monday
RECURSIVE beginOfWeekLoop(_)
beginOfWeekLoop(beginOfWeekDate) ==
  IF getDay(beginOfWeekDate) # WEEK_BEGIN_DAY
  THEN beginOfWeekLoop(beginOfWeekDate - 1)
  ELSE beginOfWeekDate

\* new Week(new DateRange(beginOfWeek, endOfWeek)): an error of the inner
\* constructor leaves Week.fromYMD as it is
weekOfRange(made) == IF made.thrown THEN Failed ELSE NewWeek(made.value[1])

\* Mutant: the week begins at the date itself.
fromYMD_NoLoop(z, date) ==
  weekOfRange(NewDateRange(z, date, plusDays(date, 6)))

\* Week.fromYMD
fromYMD(z, date) ==
  weekOfRange(NewDateRange(z, fromDate(beginOfWeekLoop(toDate(date))),
                           plusDays(fromDate(beginOfWeekLoop(toDate(date))), 6)))

\* tgt instanceof YMD
IsYMD(t) == DOMAIN t = {"year", "month", "day"}

includesDate(z, this, t) ==
  /\ toEpochDate(z, this.from) <= toEpochDate(z, t)
  /\ toEpochDate(z, t) <= toEpochDate(z, this.to)

\* DateRange.doesInclude
doesInclude(z, this, t) ==
  IF IsYMD(t) THEN includesDate(z, this, t)
  ELSE includesDate(z, this, t.from) /\ includesDate(z, this, t.to)

\* The dates Week.fromYMD is asked for: every sample and the six days after it.
WeekDates == { plusDays(s, k) : s \in DateSamples, k \in 0..6 }

\* new Week(range) for the range made
ConstructWeek ==
  /\ dpc = "done"
  /\ ~rangeMade[1].thrown
  /\ weekMade' = <<NewWeek(rangeMade[1].value[1])>>
  /\ dpc' = "week"
  /\ UNCHANGED <<rangeFrom, rangeTo, rangeMade, ymdArg, weekOfYMD, tgt, included,
                 zone, parseVars, aggVars, classVars, contentVars,
                 pluginVars>>

\* Week.fromYMD(date)
FromYMD ==
  /\ dpc = "call"
  /\ \E date \in WeekDates :
       /\ ymdArg' = <<date>>
       /\ weekOfYMD' = <<fromYMD(zone, date)>>
  /\ dpc' = "fromYMD"
  /\ UNCHANGED <<rangeFrom, rangeTo, rangeMade, weekMade, tgt, included,
                 zone, parseVars, aggVars, classVars, contentVars,
                 pluginVars>>

\* range.doesInclude(date) for the range made
DoesIncludeDate ==
  /\ dpc = "done"
  /\ ~rangeMade[1].thrown
  /\ \E date \in DateSamples :
       /\ tgt' = <<date>>
       /\ included' = <<doesInclude(zone, rangeMade[1].value[1], date)>>
  /\ dpc' = "includesDate"
  /\ UNCHANGED <<rangeFrom, rangeTo, rangeMade, weekMade, ymdArg, weekOfYMD,
                 zone, parseVars, aggVars, classVars, contentVars,
                 pluginVars>>

\* range.doesInclude(new DateRange(a, b)) for the range made
DoesIncludeRange ==
  /\ dpc = "done"
  /\ ~rangeMade[1].thrown
  /\ \E a \in DateSamples, b \in DateSamples :
       \E made \in {NewDateRange(zone, a, b)} :
         /\ ~made.thrown
         /\ tgt' = made.value
         /\ included' = <<doesInclude(zone, rangeMade[1].value[1], made.value[1])>>
  /\ dpc' = "includesRange"
  /\ UNCHANGED <<rangeFrom, rangeTo, rangeMade, weekMade, ymdArg, weekOfYMD,
                 zone, parseVars, aggVars, classVars, contentVars,
                 pluginVars>>

NextDate ==
  \/ ConstructDateRange
  \/ ConstructWeek
  \/ FromYMD
  \/ DoesIncludeDate
  \/ DoesIncludeRange

SpecDate == InitDate /\ [][NextDate]_vars

\* C20: constructing DateRange(a, b) fails with the invalid-range error if
\* and only if a is later than b; it succeeds for every a earlier than b and
\* for every a equal to b.
C20_FailsIffFromLater ==
  dpc = "done" =>
    /\ rangeMade[1].thrown <=> laterThan(rangeFrom, rangeTo)
    /\ (earlierThan(rangeFrom, rangeTo) \/ YMDEquals(rangeFrom, rangeTo)) =>
         /\ ~rangeMade[1].thrown
         /\ rangeMade[1].value = <<DateRange(rangeFrom, rangeTo)>>

\* ------------------------------------------------------ texts of dates
DATE_RANGE_DELIMITER == <<" ", "~", " ">>

Digits == <<"0", "1", "2", "3", "4", "5", "6", "7", "8", "9">>

IsDigit(c) == \E i \in 1..10 : Digits[i] = c

RECURSIVE ToNumber(_)
ToNumber(s) ==
  IF s = <<>> THEN 0
  ELSE 10 * ToNumber(SubSeq(s, 1, Len(s) - 1))
       + (CHOOSE i \in 1..10 : Digits[i] = s[Len(s)]) - 1

\* n written with w digits, zero padded
RECURSIVE Pad(_, _)
Pad(n, w) == IF w = 0 THEN <<>> ELSE Pad(n \div 10, w - 1) \o <<Digits[(n % 10) + 1]>>

\* moment(date.toDate()).format("YYYY/MM/DD")
FormatYMD(date) ==
  Pad(date.year, 4) \o <<"/">> \o Pad(date.month, 2) \o <<"/">> \o Pad(date.day, 2)

\* String.prototype.split with a separator string
RECURSIVE Split(_, _)
Split(s, sep) ==
  LET hits == { i \in 1..(Len(s) - Len(sep) + 1) : SubSeq(s, i, i + Len(sep) - 1) = sep }
  IN IF hits = {} THEN <<s>>
     ELSE LET i == CHOOSE h \in hits : \A g \in hits : h <= g
          IN <<SubSeq(s, 1, i - 1)>> \o Split(SubSeq(s, i + Len(sep), Len(s)), sep)

DaysInMonth(year, month) ==
  IF month = 2
  THEN (IF year % 4 = 0 /\ (year % 100 # 0 \/ year % 400 = 0) THEN 29 ELSE 28)
  ELSE IF month \in {4, 6, 9, 11} THEN 30 ELSE 31

\* moment(text, "YYYY/MM/DD", strict): <<>> when !isValid(), else <<d>> with
\* d the local day the moment stands for.  Strict parsing takes four, two
\* and two digits between the slashes and nothing else; forgiving parsing
\* also takes shorter numbers.  Both refuse a date the calendar does not have.
momentOf(fields, strict) ==
  IF Len(fields) # 3 THEN <<>>
  ELSE IF \E k \in 1..3 :
            \/ fields[k] = <<>>
            \/ \E i \in 1..Len(fields[k]) : ~IsDigit(fields[k][i])
       THEN <<>>
  ELSE IF strict /\ <<Len(fields[1]), Len(fields[2]), Len(fields[3])>> # <<4, 2, 2>>
       THEN <<>>
  ELSE IF Len(fields[1]) > 4 \/ Len(fields[2]) > 2 \/ Len(fields[3]) > 2
       THEN <<>>
  ELSE LET year == ToNumber(fields[1])
           month == ToNumber(fields[2])
           day == ToNumber(fields[3])
       IN IF month \notin 1..12 THEN <<>>
          ELSE IF day \notin 1..DaysInMonth(year, month) THEN <<>>
          ELSE <<toDate(YMD(year, month, day))>>

moment(text, strict) == momentOf(Split(text, <<"/">>), strict)

\* YMD.fromMoment: this.fromDate(m.toDate())
fromMoment(m) == fromDate(m)

\* ------------------------------------------- parseListHunkToTree, whole
\* The call as one step; the nodes made are numbered base + 1, base + 2, ...
\* in line order.
ParseResult(thrown, error, root) == [thrown |-> thrown, error |-> error, root |-> root]

RECURSIVE parseListHunkLoop(_, _, _, _, _, _, _)
parseListHunkLoop(ls, base, step, k, t, last, lastLevel) ==
  IF k > Len(ls) THEN ParseResult(FALSE, NoError, t)
  ELSE LET indentLevel == getIndentLevel(ls[k], step)
       IN IF indentLevel = NoLevel THEN ParseResult(TRUE, ErrMalformedIndentation, t)
          ELSE IF IndentJump(indentLevel, lastLevel)
               THEN ParseResult(TRUE, ErrIndentLevelIncreased, t)
          ELSE parseListHunkLoop(ls, base, step, k + 1,
                 Attach(t, base + k, toNode(ls[k]),
                        AttachPoint(t, last, lastLevel, indentLevel)),
                 base + k, indentLevel)

parseListHunkToTree(ls, base) ==
  parseListHunkLoop(ls, base, getMinimumIndentStep(ls), 1,
                    (ROOT :> MDListRootNode), ROOT, -1)

\* ------------------------------------------------- temporal classifier
ReasonRangeFormat == "Invalid range format"
ReasonWeekRange == "Invalid week range"

MalformedMD(reason, node) == [reason |-> reason, node |-> node]

\* validateRange(range): throws or returns
validateRange(r) ==
  IF getDay(toDate(r.from)) # WEEK_BEGIN_DAY \/ getDay(toDate(r.to)) # WEEK_END_DAY
  THEN Failed
  ELSE Made(r)

\* The value parseWeekStr comes to: an exception that leaves the function,
\* a string (error) or a DateRange (value).
WeekStr(thrown, error, value) == [thrown |-> thrown, error |-> error, value |-> value]

RECURSIVE parseWeekStrLoop(_, _, _)
parseWeekStrLoop(parts, k, dates) ==
  IF k > Len(parts) THEN [error |-> NoError, dates |-> dates]
  ELSE LET m == moment(parts[k], FALSE)
       IN IF m = <<>> THEN [error |-> "Invalid date format", dates |-> dates]
          ELSE parseWeekStrLoop(parts, k + 1, Append(dates, fromMoment(m[1])))

\* Mutant: the try/catch around new DateRange is missing.
rangeOrReason_NoCatch(made) ==
  IF made.thrown THEN WeekStr(TRUE, NoError, <<>>)
  ELSE WeekStr(FALSE, NoError, made.value)

\* try { return new DateRange(...) } catch (e) { return "Invalid range" }
rangeOrReason(made) ==
  IF made.thrown THEN WeekStr(FALSE, "Invalid range", <<>>)
  ELSE WeekStr(FALSE, NoError, made.value)

\* parseWeekStr after its loop has come to loop
datesToRange(z, loop) ==
  IF loop.error # NoError THEN WeekStr(FALSE, loop.error, <<>>)
  ELSE IF Len(loop.dates) # 2
       THEN WeekStr(FALSE, "Invalid length of data: " \o ToString(Len(loop.dates)), <<>>)
  ELSE rangeOrReason(NewDateRange(z, loop.dates[1], loop.dates[2]))

parseWeekStr(z, s) ==
  datesToRange(z, parseWeekStrLoop(Split(s, DATE_RANGE_DELIMITER), 1, <<>>))

\* What a call of parseMDRootToTaskRoot comes to: thrown or the Tasks
\* returned; outcomes and errors note, per root consumed, the branch taken
\* and what parseWeekStr said.
Outcome(node, kind, said) == [node |-> node, kind |-> kind, said |-> said]

\* The body of the loop for the root rawDateOrRange, with asMoment the
\* strict moment of its text and weekRange what parseWeekStr made of it.
classifyRoot(t, rawDateOrRange, asMoment, weekRange, acc) ==
  IF asMoment # <<>>
  THEN [acc EXCEPT !.tasks = addDailyTasks(@, fromMoment(asMoment[1]),
                                           t[rawDateOrRange].children),
                   !.outcomes = Append(@, Outcome(rawDateOrRange, "day", NoError))]
  ELSE IF weekRange.thrown THEN [acc EXCEPT !.thrown = TRUE]
  ELSE IF weekRange.error # NoError
       THEN [acc EXCEPT !.tasks = addMalformedMDs(@,
                            <<MalformedMD(ReasonRangeFormat, rawDateOrRange)>>),
                        !.outcomes = Append(@, Outcome(rawDateOrRange, "malformed",
                                                       weekRange.error))]
  ELSE IF validateRange(weekRange.value[1]).thrown
       THEN [acc EXCEPT !.tasks = addMalformedMDs(@,
                            <<MalformedMD(ReasonWeekRange, rawDateOrRange)>>),
                        !.outcomes = Append(@, Outcome(rawDateOrRange, "malformed", NoError))]
  ELSE [acc EXCEPT !.tasks = addWeekTasks(@, weekRange.value[1],
                                          t[rawDateOrRange].children),
                   !.outcomes = Append(@, Outcome(rawDateOrRange, "week", NoError))]

RECURSIVE parseMDRootLoop(_, _, _, _)
parseMDRootLoop(z, t, k, acc) ==
  IF acc.thrown \/ k > Len(t[ROOT].children) THEN acc
  ELSE parseMDRootLoop(z, t, k + 1,
         classifyRoot(t, t[ROOT].children[k],
                      moment(t[t[ROOT].children[k]].text, TRUE),
                      parseWeekStr(z, t[t[ROOT].children[k]].text),
                      acc))

parseMDRootToTaskRoot(z, t) ==
  parseMDRootLoop(z, t, 1, [thrown |-> FALSE, tasks |-> NewTasks, outcomes |-> <<>>])

\* Texts of root lines: a day, a day written without padding, a day the
\* calendar does not have, ranges between a Monday and two Sundays in every
\* order, a range that starts on a Tuesday, three dates, and plain text.
RangeText(a, b) == FormatYMD(a) \o DATE_RANGE_DELIMITER \o FormatYMD(b)

RootTexts ==
  { FormatYMD(YMD(2025, 3, 12)), FormatYMD(YMD(2025, 3, 3)),
    <<"2", "0", "2", "5", "/", "3", "/", "1", "2">>,
    <<"2", "0", "2", "5", "/", "0", "2", "/", "3", "0">>,
    RangeText(YMD(2025, 3, 4), YMD(2025, 3, 9)),
    RangeText(YMD(2025, 3, 3), YMD(2025, 3, 9)) \o DATE_RANGE_DELIMITER
      \o FormatYMD(YMD(2025, 3, 16)),
    <<"a">> }
  \cup { RangeText(a, b) :
           a, b \in { YMD(2025, 3, 3), YMD(2025, 3, 9), YMD(2025, 3, 16) } }

\* A hunk of n roots, each with its text and with or without one child line.
RECURSIVE HunkOf(_)
HunkOf(rs) ==
  IF rs = <<>> THEN <<>>
  ELSE <<MDListLine(0, Head(rs).text)>>
       \o (IF Head(rs).child THEN <<MDListLine(2, <<"a">>)>> ELSE <<>>)
       \o HunkOf(Tail(rs))

ClassifierHunks ==
  { HunkOf(rs) : rs \in UNION { [1..n -> [text : RootTexts, child : BOOLEAN]]
                                 : n \in 0..MaxRoots } }

InitClassify ==
  /\ IdleParse
  /\ IdleAgg
  /\ IdleContent
  /\ IdleDate
  /\ IdlePlugin
  /\ zone \in TimeZones
  /\ \E h \in ClassifierHunks : mdRoot = parseListHunkToTree(h, 0).root
  /\ classified = <<>>
  /\ cpc = "call"

\* parseMDRootToTaskRoot(mdRoot)
ParseMDRootToTaskRoot ==
  /\ cpc = "call"
  /\ classified' = <<parseMDRootToTaskRoot(zone, mdRoot)>>
  /\ cpc' = "done"
  /\ UNCHANGED <<mdRoot, zone, parseVars, aggVars, contentVars, dateVars, pluginVars>>

NextClassify == ParseMDRootToTaskRoot

SpecClassify == InitClassify /\ [][NextClassify]_vars

\* ---------------------------------------------------------------- C11
\* The nodes held as tasks of some week or day of a Tasks object.
TaskNodes(tasks) ==
  UNION { { tasks.weeklyData[i].tasks[k] : k \in 1..Len(tasks.weeklyData[i].tasks) }
          : i \in 1..Len(tasks.weeklyData) }
  \cup UNION { { tasks.dailyData[i].tasks[k] : k \in 1..Len(tasks.dailyData[i].tasks) }
               : i \in 1..Len(tasks.dailyData) }

\* The malformed entries of a Tasks object made for node n.
MalformedFor(tasks, n) ==
  { i \in 1..Len(tasks.malformedMDs) : tasks.malformedMDs[i].node = n }

\* C11: parseMDRootToTaskRoot never throws; each root-level subtree of the
\* hunk, in order, ends in exactly one of the outcomes day, week, malformed;
\* a malformed root adds exactly one malformed entry and no node of its
\* subtree becomes a task of any period; the roots after it are classified
\* all the same (a day or week root hands its children to a period and adds
\* no malformed entry).
C11_ClassifierTotal ==
  cpc = "done" =>
    LET c == classified[1]
        rs == mdRoot[ROOT].children
    IN /\ ~c.thrown
       /\ Len(c.outcomes) = Len(rs)
       /\ \A k \in 1..Len(rs) :
            /\ c.outcomes[k].node = rs[k]
            /\ c.outcomes[k].kind \in {"day", "week", "malformed"}
            /\ c.outcomes[k].kind = "malformed" =>
                 /\ Cardinality(MalformedFor(c.tasks, rs[k])) = 1
                 /\ SubtreeOf(mdRoot, rs[k]) \cap TaskNodes(c.tasks) = {}
            /\ c.outcomes[k].kind # "malformed" =>
                 /\ MalformedFor(c.tasks, rs[k]) = {}
                 /\ \A i \in 1..Len(mdRoot[rs[k]].children) :
                      mdRoot[rs[k]].children[i] \in TaskNodes(c.tasks)
       /\ Len(c.tasks.malformedMDs)
            = Cardinality({ k \in 1..Len(rs) : c.outcomes[k].kind = "malformed" })

\* A root whose DateRange constructor threw (from later than to), with a
\* child line, is followed by a root classified as a week with a task.
C11_Witness ==
  /\ cpc = "done"
  /\ Len(classified[1].outcomes) = 2
  /\ classified[1].outcomes[1].said = "Invalid range"
  /\ mdRoot[classified[1].outcomes[1].node].children # <<>>
  /\ classified[1].outcomes[2].kind = "week"
  /\ mdRoot[classified[1].outcomes[2].node].children # <<>>

\* ---------------------------------------------------------------- C12
\* The two dates of a root text "<d1> ~ <d2>" with two valid dates, else <<>>.
TwoDates(text) ==
  LET parts == Split(text, DATE_RANGE_DELIMITER)
  IN IF Len(parts) = 2 /\ moment(parts[1], TRUE) # <<>> /\ moment(parts[2], TRUE) # <<>>
     THEN <<moment(parts[1], TRUE)[1], moment(parts[2], TRUE)[1]>>
     ELSE <<>>

\* C12: every root whose text is "<d1> ~ <d2>" with two valid dates is
\* classified as a week if and only if d1 is a Monday and d2 = d1 + 6 days;
\* every other pair of valid dates is recorded as malformed.
C12_WeekIffMondayPlusSix ==
  cpc = "done" =>
    \A k \in 1..Len(classified[1].outcomes) :
      LET o == classified[1].outcomes[k]
          ds == TwoDates(mdRoot[o.node].text)
      IN ds # <<>> =>
           /\ o.kind = "week" <=> (getDay(ds[1]) = 1 /\ ds[2] = ds[1] + 6)
           /\ o.kind # "week" => o.kind = "malformed"

\* ---------------------------------------------------------------- C13
\* The text is two valid dates, the first later than the second.
FromLaterThanTo(text) ==
  /\ TwoDates(text) # <<>>
  /\ laterThan(fromDate(TwoDates(text)[1]), fromDate(TwoDates(text)[2]))

\* The text is not two dates, or one of its dates has bad syntax.
FormatError(text) ==
  LET parts == Split(text, DATE_RANGE_DELIMITER)
  IN Len(parts) # 2 \/ \E i \in 1..Len(parts) : moment(parts[i], FALSE) = <<>>

\* C13: the reason recorded for a root with two valid dates whose first date
\* is later than the second differs from the reason recorded for a root that
\* is not two dates or has bad date syntax.
C13_RangeReasonDiffersFromFormatReason ==
  cpc = "done" =>
    \A i, j \in 1..Len(classified[1].tasks.malformedMDs) :
      LET a == classified[1].tasks.malformedMDs[i]
          b == classified[1].tasks.malformedMDs[j]
      IN (FromLaterThanTo(mdRoot[a.node].text) /\ FormatError(mdRoot[b.node].text))
           => a.reason # b.reason

\* ------------------------------------------------------ MDListLine.fromLine
\* \s of the two regular expressions, for the characters the lines are made of
IsSpace(c) == c \in {" ", "\t"}

\* Length of the run of whitespace of text that starts at position i.
RECURSIVE SpaceRun(_, _)
SpaceRun(text, i) ==
  IF i > Len(text) THEN 0
  ELSE IF IsSpace(text[i]) THEN 1 + SpaceRun(text, i + 1) ELSE 0

\* MDListLine.fromLine: <<>> for undefined.  /^(\s*)-\s+(.+)$/ gives the
\* text after the whitespace that follows the dash (its last blank when only
\* blanks follow), /^(\s*)-$/ gives the empty content.
fromLine(text) ==
  LET lead == SpaceRun(text, 1)
      ws == SpaceRun(text, lead + 2)
  IN IF lead + 1 > Len(text) THEN <<>>
     ELSE IF text[lead + 1] # "-" THEN <<>>
     ELSE IF ws >= 1 /\ lead + 1 + ws < Len(text)
          THEN <<MDListLine(lead, SubSeq(text, lead + 2 + ws, Len(text)))>>
     ELSE IF ws >= 2 THEN <<MDListLine(lead, <<text[Len(text)]>>)>>
     ELSE IF Len(text) = lead + 1 THEN <<MDListLine(lead, <<>>)>>
     ELSE <<>>

MDListHunk(ls) == [lines |-> ls]

\* Mutant: the buffer is never flushed inside the loop.
NeedsFlush_Never(buf, mdListLine) == FALSE

\* buffer.length !== 0 && !mdListLine
NeedsFlush(buf, mdListLine) == buf # <<>> /\ mdListLine = <<>>

\* Mutant: every hunk counts as holding valid data.
hasValidData_Always(this) == TRUE

hasValidData(this) == Len(this.weeklyData) > 0 \/ Len(this.dailyData) > 0

\* ------------------------------------------------- the file pipeline
\* Lines the documents are made of: prose, an empty line, a day root, a week
\* root, a root that is neither, and a child line.
LineSamples ==
  { <<"x">>, <<>>,
    <<"-", " ">> \o FormatYMD(YMD(2025, 3, 12)),
    <<"-", " ">> \o RangeText(YMD(2025, 3, 3), YMD(2025, 3, 9)),
    <<"-", " ", "a">>,
    <<" ", " ", "-", " ", "b">> }

RECURSIVE Join(_, _)
Join(ls, sep) ==
  IF Len(ls) = 1 THEN ls[1] ELSE ls[1] \o sep \o Join(Tail(ls), sep)

\* A document of n >= 1 lines; the empty document is the one empty line.
Contents ==
  { Join(ls, <<"\n">>) : ls \in UNION { [1..n -> LineSamples] : n \in 1..MaxContentLines } }

\* State at entry of parseContentToTasks(srcFile, content), inside
\* parseContentToListHunks.
InitContent ==
  /\ IdleParse
  /\ IdleAgg
  /\ IdleClassify
  /\ IdleDate
  /\ IdlePlugin
  /\ zone \in TimeZones
  /\ fileContent \in Contents
  /\ split = Split(fileContent, <<"\n">>)
  /\ lineNo = 0
  /\ buffer = <<>>
  /\ hunks = <<>>
  /\ hunkNo = 0
  /\ hunkResults = <<>>
  /\ fileTasks = NewTasks
  /\ returned = <<>>
  /\ tasksMap = <<>>
  /\ shown = <<>>
  /\ rootReturned = <<>>
  /\ kpc = "split"

\* parseContentToListHunks: one iteration of the loop over the lines
SplitLine ==
  /\ kpc = "split"
  /\ lineNo < Len(split)
  /\ LET mdListLine == fromLine(split[lineNo + 1])
         flush == NeedsFlush(buffer, mdListLine)
     IN /\ hunks' = IF flush THEN Append(hunks, MDListHunk(buffer)) ELSE hunks
        /\ buffer' = (IF flush THEN <<>> ELSE buffer) \o mdListLine
  /\ lineNo' = lineNo + 1
  /\ UNCHANGED <<rootReturned, fileContent, split, hunkNo, hunkResults, fileTasks, returned, tasksMap,
                 shown, kpc, zone, parseVars, aggVars, classVars, dateVars, pluginVars>>

\* parseContentToListHunks: hunks.push(new MDListHunk(buffer)); return hunks
SplitReturn ==
  /\ kpc = "split"
  /\ lineNo = Len(split)
  /\ hunks' = Append(hunks, MDListHunk(buffer))
  /\ kpc' = "hunks"
  /\ UNCHANGED <<rootReturned, fileContent, split, lineNo, buffer, hunkNo, hunkResults, fileTasks,
                 returned, tasksMap, shown, zone, parseVars, aggVars, classVars, dateVars, pluginVars>>

\* Number of lines in the first n hunks: the nodes made before hunk n + 1.
RECURSIVE LinesBefore(_, _)
LinesBefore(hs, n) == IF n = 0 THEN 0 ELSE Len(hs[n].lines) + LinesBefore(hs, n - 1)

\* Mutant: a hunk whose tree build fails is skipped and the loop goes on.
ParseHunk_SkipFailed ==
  /\ kpc = "hunks"
  /\ hunkNo < Len(hunks)
  /\ \E md \in {parseListHunkToTree(hunks[hunkNo + 1].lines, LinesBefore(hunks, hunkNo))} :
     \E hunkTasks \in {parseMDRootToTaskRoot(zone, md.root)} :
        /\ fileTasks' = IF ~md.thrown /\ hasValidData(hunkTasks.tasks)
                        THEN addAll(fileTasks, hunkTasks.tasks)
                        ELSE fileTasks
        /\ hunkResults' = Append(hunkResults, hunkTasks)
        /\ hunkNo' = hunkNo + 1
        /\ UNCHANGED kpc
  /\ UNCHANGED <<rootReturned, fileContent, split, lineNo, buffer, hunks, returned,
                 tasksMap, shown, zone, parseVars, aggVars, classVars, dateVars,
                 pluginVars>>

\* parseContentToTasks: one iteration of the loop over the hunks
ParseHunk ==
  /\ kpc = "hunks"
  /\ hunkNo < Len(hunks)
  /\ \E md \in {parseListHunkToTree(hunks[hunkNo + 1].lines, LinesBefore(hunks, hunkNo))} :
     \E hunkTasks \in {parseMDRootToTaskRoot(zone, md.root)} :
        IF md.thrown \/ hunkTasks.thrown
        THEN /\ kpc' = Thrown
             /\ UNCHANGED <<hunkNo, hunkResults, fileTasks>>
        ELSE /\ fileTasks' = IF hasValidData(hunkTasks.tasks)
                             THEN addAll(fileTasks, hunkTasks.tasks)
                             ELSE fileTasks
             /\ hunkResults' = Append(hunkResults, hunkTasks)
             /\ hunkNo' = hunkNo + 1
             /\ UNCHANGED kpc
  /\ UNCHANGED <<rootReturned, fileContent, split, lineNo, buffer, hunks, returned, tasksMap, shown,
                 zone, parseVars, aggVars, classVars, dateVars, pluginVars>>

\* return tasks.hasValidData() ? tasks : undefined
ReturnTasks ==
  /\ kpc = "hunks"
  /\ hunkNo = Len(hunks)
  /\ returned' = IF hasValidData(fileTasks) THEN <<fileTasks>> ELSE <<>>
  /\ kpc' = "returned"
  /\ UNCHANGED <<rootReturned, fileContent, split, lineNo, buffer, hunks, hunkNo, hunkResults,
                 fileTasks, tasksMap, shown, zone, parseVars, aggVars, classVars, dateVars, pluginVars>>

\* collectTasksIfNeeded over a folder that holds the one file:
\* if (fileTasks) tasks.addAll(fileTasks); this.tasksMap.set(rootPath, tasks)
CollectFile ==
  /\ kpc = "returned"
  /\ tasksMap' = <<IF returned # <<>> THEN addAll(NewTasks, returned[1]) ELSE NewTasks>>
  /\ kpc' = "collected"
  /\ UNCHANGED <<rootReturned, fileContent, split, lineNo, buffer, hunks, hunkNo, hunkResults,
                 fileTasks, returned, shown, zone, parseVars, aggVars, classVars, dateVars, pluginVars>>

\* showTasks: one item of "Malformed contents" per malformed entry
ShowTasks ==
  /\ kpc = "collected"
  /\ shown' = tasksMap[1].malformedMDs
  /\ kpc' = "shown"
  /\ UNCHANGED <<rootReturned, fileContent, split, lineNo, buffer, hunks, hunkNo, hunkResults,
                 fileTasks, returned, tasksMap, zone, parseVars, aggVars, classVars,
                 dateVars, pluginVars>>

\* ------------------------- parseContentToTasks, the TaskRoot generation
\* line.trimStart()[0] === '-'
isListElement(line) ==
  IF SpaceRun(line, 1) + 1 > Len(line) THEN FALSE
  ELSE line[SpaceRun(line, 1) + 1] = "-"

\* The loop of parseContentToListHunks over the lines, then the last push;
\* a hunk holds the raw lines.
RECURSIVE listHunksLoop(_, _, _, _)
listHunksLoop(ls, k, buf, hs) ==
  IF k > Len(ls) THEN Append(hs, buf)
  ELSE IF buf # <<>> /\ ~isListElement(ls[k])
       THEN listHunksLoop(ls, k + 1, <<>>, Append(hs, buf))
  ELSE listHunksLoop(ls, k + 1,
                     IF isListElement(ls[k]) THEN Append(buf, ls[k]) ELSE buf, hs)

\* MDListLine.create: /^(\s*)-\s+(.+)/, <<>> for undefined
create(text) ==
  IF Len(text) = SpaceRun(text, 1) + 1 THEN <<>> ELSE fromLine(text)

\* rawLines.map(MDListLine.create): <<>> once a line is no list line
RECURSIVE createAll(_)
createAll(rawLines) ==
  IF rawLines = <<>> THEN <<<<>>>>
  ELSE IF create(rawLines[1]) = <<>> \/ createAll(Tail(rawLines)) = <<>> THEN <<>>
  ELSE <<create(rawLines[1]) \o createAll(Tail(rawLines))[1]>>

\* The root being filled by parseMDRootToTaskRoot and the root of the file.
ChildRoot == 2
FileRoot == 1

\* The body of the loop of parseMDRootToTaskRoot for the root node child,
\* with asMoment the strict moment of its text and weekRange what
\* parseWeekStr made of it; new objects go to the end of the heap.
taskRootOfChild(t, child, asMoment, weekRange, st) ==
  IF asMoment # <<>>
  THEN Store([st.roots EXCEPT ![ChildRoot].taskDays = Append(@, Len(st.heap) + 1)],
             Append(st.heap, TaskDay(fromMoment(asMoment[1]), t[child].children)))
  ELSE IF weekRange.error # NoError
       THEN Store([st.roots EXCEPT ![ChildRoot].malformedMDs =
                     Append(@, MalformedMD(ReasonRangeFormat, child))], st.heap)
  ELSE IF validateRange(weekRange.value[1]).thrown
       THEN Store([st.roots EXCEPT ![ChildRoot].malformedMDs =
                     Append(@, MalformedMD(ReasonWeekRange, child))], st.heap)
  ELSE Store([st.roots EXCEPT ![ChildRoot].taskWeeks = Append(@, Len(st.heap) + 1)],
             Append(st.heap, TaskWeek(weekRange.value[1], t[child].children)))

RECURSIVE taskRootLoop(_, _, _, _)
taskRootLoop(z, t, k, st) ==
  IF k > Len(t[ROOT].children) THEN st
  ELSE taskRootLoop(z, t, k + 1,
         taskRootOfChild(t, t[ROOT].children[k],
                         moment(t[t[ROOT].children[k]].text, TRUE),
                         parseWeekStr(z, t[t[ROOT].children[k]].text), st))

\* if (childRoot.taskWeeks.length > 0 || childRoot.taskDays.length > 0)
\*   mergeTaskRoots(childRoot, taskRoot)
mergeIfTasks(st) ==
  IF Len(st.roots[ChildRoot].taskWeeks) > 0 \/ Len(st.roots[ChildRoot].taskDays) > 0
  THEN mergeTaskRoots(st, ChildRoot, FileRoot)
  ELSE st

\* What parseContentToTasks comes to: an exception, or its return value
\* (<<>> for undefined) with the heap of the objects made.
TaskRootResult(thrown, value, hp) == [thrown |-> thrown, value |-> value, heap |-> hp]

\* return taskRoot.taskWeeks.length > 0 ? taskRoot : undefined
taskRootOrUndefined(st) ==
  TaskRootResult(FALSE,
                 IF Len(st.roots[FileRoot].taskWeeks) > 0
                 THEN <<st.roots[FileRoot]>> ELSE <<>>,
                 st.heap)

\* Number of lines in the first n hunks: the nodes made before hunk n + 1.
RECURSIVE RawLinesBefore(_, _)
RawLinesBefore(hs, n) == IF n = 0 THEN 0 ELSE Len(hs[n]) + RawLinesBefore(hs, n - 1)

\* The loop of parseContentToTasks over the hunks, then its return.
RECURSIVE taskRootOfHunks(_, _, _, _)
taskRootOfHunks(z, hs, k, st) ==
  IF k > Len(hs) THEN taskRootOrUndefined(st)
  ELSE IF createAll(hs[k]) = <<>> THEN TaskRootResult(TRUE, <<>>, st.heap)
  ELSE IF parseListHunkToTree(createAll(hs[k])[1], RawLinesBefore(hs, k - 1)).thrown
       THEN TaskRootResult(TRUE, <<>>, st.heap)
  ELSE taskRootOfHunks(z, hs, k + 1,
         mergeIfTasks(
           taskRootLoop(z,
             parseListHunkToTree(createAll(hs[k])[1], RawLinesBefore(hs, k - 1)).root,
             1,
             Store([st.roots EXCEPT ![ChildRoot] = NewTaskRoot], st.heap))))

parseContentToTaskRoot(z, text) ==
  taskRootOfHunks(z, listHunksLoop(Split(text, <<"\n">>), 1, <<>>, <<>>), 1,
                  Store(<<NewTaskRoot, NewTaskRoot>>, <<>>))

\* parseContentToTasks(srcPath, content) of the TaskRoot generation, whole
ParseContentToTaskRoot ==
  /\ kpc = "split"
  /\ lineNo = 0
  /\ rootReturned' = <<parseContentToTaskRoot(zone, fileContent)>>
  /\ kpc' = "taskRoot"
  /\ UNCHANGED <<fileContent, split, lineNo, buffer, hunks, hunkNo, hunkResults,
                 fileTasks, returned, tasksMap, shown, zone, parseVars, aggVars,
                 classVars, dateVars, pluginVars>>

NextContent ==
  \/ ParseContentToTaskRoot
  \/ SplitLine
  \/ SplitReturn
  \/ ParseHunk
  \/ ReturnTasks
  \/ CollectFile
  \/ ShowTasks

SpecContent == InitContent /\ [][NextContent]_vars

\* ---------------------------------------------------------------- C14
\* The hunk result r has a root that was classified as a day or a week.
HasValidRoot(r) ==
  \E k \in 1..Len(r.outcomes) : r.outcomes[k].kind \in {"day", "week"}

\* The results of the hunks that have a valid root, in document order.
ValidResults == SelectSeq(hunkResults, HasValidRoot)

\* The loop over the hunks has ended without an error.
HunksDone == kpc \in {"returned", "collected", "shown"}

\* C14: a hunk none of whose roots classifies as a day or a week contributes
\* nothing to the result of parseContentToTasks, neither tasks nor malformed
\* entries; a hunk with a valid day or week root contributes all of its
\* tasks and all of its malformed entries.  So the result holds the periods,
\* the tasks per period and the malformed entries of exactly the hunks with
\* a valid root, in document order, and is undefined when there is none.
C14_OnlyValidHunksContribute ==
  HunksDone =>
    LET es == TasksEntries(fileTasks)
        contributed ==
          Concat([i \in 1..Len(ValidResults) |-> TasksEntries(ValidResults[i].tasks)])
    IN /\ fileTasks.malformedMDs
            = Concat([i \in 1..Len(ValidResults) |-> ValidResults[i].tasks.malformedMDs])
       /\ { es[i][1] : i \in 1..Len(es) }
            = { contributed[i][1] : i \in 1..Len(contributed) }
       /\ \A i \in 1..Len(es) : TasksUnder(es, es[i][1]) = TasksUnder(contributed, es[i][1])
       /\ returned = IF ValidResults = <<>> THEN <<>> ELSE <<fileTasks>>

\* A hunk with a malformed root only, then a hunk with a valid root and a
\* malformed root: the result holds the malformed entry of the second hunk.
C14_Witness ==
  /\ kpc = "returned"
  /\ Len(hunkResults) = 2
  /\ ~HasValidRoot(hunkResults[1])
  /\ hunkResults[1].tasks.malformedMDs # <<>>
  /\ HasValidRoot(hunkResults[2])
  /\ hunkResults[2].tasks.malformedMDs # <<>>
  /\ returned # <<>>
  /\ returned[1].malformedMDs = hunkResults[2].tasks.malformedMDs

\* ---------------------------------------------------------------- C15
\* The roots of hunk result r that failed the classification.
FailedRoots(r) ==
  { r.outcomes[k].node : k \in { i \in 1..Len(r.outcomes) : r.outcomes[i].kind = "malformed" } }

ShownNodes == { shown[i].node : i \in 1..Len(shown) }

\* C15 as stated: every root-level subtree of every hunk of the collected
\* file that fails the classification is in the malformed list shown.
C15_EveryMalformedRootShown ==
  kpc = "shown" =>
    \A h \in 1..Len(hunkResults) : FailedRoots(hunkResults[h]) \subseteq ShownNodes

\* C15: every root-level subtree that fails the classification and stands in
\* a hunk with at least one valid day or week root is in the malformed list
\* shown to the user, once; the failed roots of the other hunks are not shown.
C15_MalformedRootsOfValidHunksShown ==
  kpc = "shown" =>
    /\ \A h \in 1..Len(hunkResults) :
         IF HasValidRoot(hunkResults[h])
         THEN \A n \in FailedRoots(hunkResults[h]) :
                Cardinality({ i \in 1..Len(shown) : shown[i].node = n }) = 1
         ELSE FailedRoots(hunkResults[h]) \cap ShownNodes = {}

\* The list shown holds the failed root of a hunk with a valid root while
\* another hunk of the file had a failed root and no valid one.
C15_Witness ==
  /\ kpc = "shown"
  /\ shown # <<>>
  /\ \E h \in 1..Len(hunkResults) :
       ~HasValidRoot(hunkResults[h]) /\ FailedRoots(hunkResults[h]) # {}
  /\ \E h \in 1..Len(hunkResults) :
       HasValidRoot(hunkResults[h]) /\ FailedRoots(hunkResults[h]) # {}

\* ---------------------------------------------------------------- C16
IsListLine(i) == fromLine(split[i]) # <<>>

ListLineNos == { i \in 1..Len(split) : IsListLine(i) }

\* The list lines of the document, in document order.
ListLines ==
  LET found == SelectSeq([i \in 1..Len(split) |-> fromLine(split[i])],
                         LAMBDA l : l # <<>>)
  IN [k \in 1..Len(found) |-> found[k][1]]

\* Place of document line i among the list lines.
Rank(i) == Cardinality({ j \in ListLineNos : j <= i })

\* The hunk that holds the r-th line of the concatenated hunks.
HunkAt(r) ==
  CHOOSE h \in 1..Len(hunks) : LinesBefore(hunks, h - 1) < r /\ r <= LinesBefore(hunks, h)

SplitDone == kpc \notin {"idle", "split", "taskRoot"}

\* C16: the hunks returned by parseContentToListHunks, concatenated in order,
\* are exactly the list lines of the document in document order (so no line
\* is in two hunks), and two list lines are in the same hunk if and only if
\* no non-list line lies between them.
C16_HunksPartitionListLines ==
  SplitDone =>
    /\ Concat([h \in 1..Len(hunks) |-> hunks[h].lines]) = ListLines
    /\ \A p, q \in ListLineNos :
         p < q => (HunkAt(Rank(p)) = HunkAt(Rank(q)) <=> \A r \in p..q : IsListLine(r))

\* Two list lines in one hunk and a third one in another hunk.
C16_Witness ==
  /\ kpc = "hunks"
  /\ \E g, h \in 1..Len(hunks) : g # h /\ Len(hunks[g].lines) = 2 /\ Len(hunks[h].lines) = 1

\* ---------------------------------------------------------------- C17
\* Number of maximal runs of list lines in the document.
ListRuns ==
  Cardinality({ i \in ListLineNos : IF i = 1 THEN TRUE ELSE ~IsListLine(i - 1) })

\* C17: every hunk returned by parseContentToListHunks holds at least one
\* list line, and the number of hunks equals the number of maximal runs of
\* list lines in the document, the empty document and a document whose last
\* line is not a list line included.
C17_HunksAreTheRuns ==
  SplitDone =>
    /\ \A h \in 1..Len(hunks) : hunks[h].lines # <<>>
    /\ Len(hunks) = ListRuns

\* ---------------------------------------------------------------- C18
\* The nodes of the subtree of n in pre-order, children in stored order.
RECURSIVE PreOrder(_, _)
PreOrder(t, n) ==
  <<n>> \o Concat([i \in 1..Len(t[n].children) |-> PreOrder(t, t[n].children[i])])

\* C18: for every hunk parseListHunkToTree accepts, the tree has exactly one
\* node per input line, made from that line, and the pre-order traversal of
\* the tree (children in stored order, sentinel root left out) visits the
\* nodes in the order of the input lines.
C18_PreOrderIsLineOrder ==
  pc = "returned" =>
    /\ Tail(PreOrder(tree, ROOT)) = [k \in 1..Len(lines) |-> k]
    /\ DOMAIN tree = 0..Len(lines)
    /\ \A k \in 1..Len(lines) : LineContent(tree[k]) = lines[k].content

\* An accepted hunk of three lines: a root with a child, then a second root.
C18_Witness ==
  /\ pc = "returned"
  /\ tree[ROOT].children = <<1, 3>>
  /\ tree[1].children = <<2>>

\* ------------------------------------------------------ MDListNode.visit
\* A call made on the visitor, as a recording visitor notes it: enter(node,
\* ctx), a call of the factory that enter(node) returned (ctx: the context it
\* made), exit(node, ctx, childrenCtx).
Event(kind, node, ctx, childrenCtx) ==
  [kind |-> kind, node |-> node, ctx |-> ctx, childrenCtx |-> childrenCtx]

\* Mutant: the contexts handed to the children are collected back to front.
pushChildCtx_Front(childrenCtx, childCtx) == <<childCtx>> \o childrenCtx

\* childrenCtx.push(childCtx)
pushChildCtx(childrenCtx, childCtx) == Append(childrenCtx, childCtx)

\* visit(visitor, ctx) on node n of tree t; st is the recording visitor: the
\* calls noted so far and the next context its factories hand out.
RECURSIVE visit(_, _, _, _)
RECURSIVE visitChildren(_, _, _, _, _)
visitChildren(t, n, i, childrenCtx, st) ==
  IF i > Len(t[n].children) THEN [st |-> st, childrenCtx |-> childrenCtx]
  ELSE LET childCtx == st.next
           made == [st EXCEPT !.next = @ + 1,
                              !.log = Append(@, Event("factory", n, childCtx, <<>>))]
       IN visitChildren(t, n, i + 1, pushChildCtx(childrenCtx, childCtx),
                        visit(t, t[n].children[i], childCtx, made))

visit(t, n, ctx, st) ==
  LET entered == [st EXCEPT !.log = Append(@, Event("enter", n, ctx, <<>>))]
      walked == visitChildren(t, n, 1, <<>>, entered)
  IN [walked.st EXCEPT !.log = Append(@, Event("exit", n, ctx, walked.childrenCtx))]

\* The calls a recording visitor notes on a walk of the whole tree t.
VisitLog(t) == visit(t, ROOT, 0, [log |-> <<>>, next |-> 1]).log

\* ---------------------------------------------------------------- C19
\* Positions in log of the calls of one kind made for node n.
Calls(log, kind, n) == { i \in 1..Len(log) : log[i].kind = kind /\ log[i].node = n }

TheCall(log, kind, n) == CHOOSE i \in Calls(log, kind, n) : TRUE

\* C19: MDListNode.visit is a depth-first walk in which, for every node,
\* enter is called exactly once and before enter of any descendant; the
\* factory returned by enter is invoked exactly once per child, in child
\* order, right before that child is visited with the context it made; exit
\* is called exactly once, after exit of every descendant, with the contexts
\* handed to the children in child order; all calls for the subtree of a
\* node lie between its enter and its exit.
C19_VisitIsDepthFirst ==
  pc = "returned" =>
    LET log == VisitLog(tree)
    IN \A n \in DOMAIN tree :
         /\ Cardinality(Calls(log, "enter", n)) = 1
         /\ Cardinality(Calls(log, "exit", n)) = 1
         /\ Cardinality(Calls(log, "factory", n)) = Len(tree[n].children)
         /\ \A d \in SubtreeOf(tree, n) \ {n} :
              /\ TheCall(log, "enter", n) < TheCall(log, "enter", d)
              /\ TheCall(log, "exit", d) < TheCall(log, "exit", n)
         /\ TheCall(log, "exit", n) - TheCall(log, "enter", n) + 1
              = 3 * Cardinality(SubtreeOf(tree, n)) - 1
         /\ \A i \in 1..Len(tree[n].children) :
              LET at == TheCall(log, "enter", tree[n].children[i])
              IN /\ log[at - 1].kind = "factory"
                 /\ log[at - 1].node = n
                 /\ log[at - 1].ctx = log[at].ctx
                 /\ log[TheCall(log, "exit", n)].childrenCtx[i] = log[at].ctx
                 /\ i > 1 => TheCall(log, "exit", tree[n].children[i - 1]) = at - 2
         /\ Len(log[TheCall(log, "exit", n)].childrenCtx) = Len(tree[n].children)
         /\ log[TheCall(log, "exit", n)].ctx = log[TheCall(log, "enter", n)].ctx

\* The walk of a tree in which a node has two children, the first of them
\* with a child of its own, has ended.
C19_Witness ==
  /\ pc = "returned"
  /\ tree[ROOT].children = <<1, 3>>
  /\ tree[1].children = <<2>>
  /\ Len(VisitLog(tree)) = 11

\* ------------------------------------------------------ weeks and ranges
\* The number of days from date a to date b on the calendar.
DaysBetween(a, b) == toDate(b) - toDate(a)

IsMonday(date) == getDay(toDate(date)) = 1

\* C21: a DateRange r is accepted as a Week (Week.isWeekRange(r) is true and
\* the Week constructor does not throw) if and only if r.from is a Monday
\* and r.to equals r.from plus 6 days.
C21_WeekIffMondayAndSixDays ==
  dpc = "week" =>
    LET r == rangeMade[1].value[1]
        accepted == IsMonday(r.from) /\ DaysBetween(r.from, r.to) = 6
    IN /\ isWeekRange(r) <=> accepted
       /\ ~weekMade[1].thrown <=> accepted
       /\ ~weekMade[1].thrown => weekMade[1].value[1].range = r

\* A Monday-to-Sunday range was accepted as a Week.
C21_Witness ==
  /\ dpc = "week"
  /\ ~weekMade[1].thrown
  /\ IsMonday(rangeFrom)
  /\ DaysBetween(rangeFrom, rangeTo) = 6

\* C22: for every date d, Week.fromYMD(d) returns a Monday-to-Sunday range
\* that includes d; for the 7 dates of one Monday-to-Sunday week it returns
\* the identical range, and for the Sunday before that Monday it returns a
\* different range.
C22_FromYMDIsTheWeekOfTheDate ==
  dpc = "fromYMD" =>
    /\ ~weekOfYMD[1].thrown
    /\ LET d == ymdArg[1]
           r == weekOfYMD[1].value[1].range
       IN /\ IsMonday(r.from)
          /\ getDay(toDate(r.to)) = 0
          /\ DaysBetween(r.from, r.to) = 6
          /\ DaysBetween(r.from, d) \in 0..6
          /\ \A k \in 0..6 :
               fromYMD(zone, fromDate(toDate(r.from) + k)) = weekOfYMD[1]
          /\ fromYMD(zone, fromDate(toDate(r.from) - 1)) # weekOfYMD[1]

\* Week.fromYMD was asked for a Sunday and walked six days back.
C22_Witness ==
  /\ dpc = "fromYMD"
  /\ getDay(toDate(ymdArg[1])) = 0
  /\ ~weekOfYMD[1].thrown
  /\ DaysBetween(weekOfYMD[1].value[1].range.from, ymdArg[1]) = 6

\* date d lies in [r.from, r.to] on the calendar
Within(r, d) == compare(r.from, d) <= 0 /\ compare(d, r.to) <= 0

\* C23: for every DateRange r = [a, b], r.doesInclude(d) is true exactly for
\* the dates d with a <= d <= b, and r.doesInclude(r2) is true for a range
\* r2 exactly when both ends of r2 lie in [a, b].
C23_IncludesExactlyTheDatesBetween ==
  /\ dpc = "includesDate" =>
       (included[1] <=> Within(rangeMade[1].value[1], tgt[1]))
  /\ dpc = "includesRange" =>
       (included[1] <=> /\ Within(rangeMade[1].value[1], tgt[1].from)
                        /\ Within(rangeMade[1].value[1], tgt[1].to))

\* ------------------------------------------- the plugin (WTCPlugin, main)
\* The debounce window of collectTasksIfNeeded, in milliseconds.
DebounceMillis == 1000

\* The wall clock moves in steps of half a second.
TickMillis == 500

\* What lib.parseContentToTasks does with the content of one file: returns
\* tasks, returns undefined, or throws.
ParseOutcomes == {"tasks", "undefined", "throws"}

\* latestUpdateTime !== undefined
\*   && getEpochTimeMillis() < (latestUpdateTime + 1000)
Debounced(latestUpdateTime, time) ==
  IF latestUpdateTime = <<>> THEN FALSE
  ELSE time < latestUpdateTime[1] + DebounceMillis

\* showTasks after collectTasksIfNeeded has returned:
\* const tasks = this.tasksMap.get(...); if (!tasks) throw "Cache may be broken."
AfterCollect(map, key) == IF map[key] = <<>> THEN "broken" ELSE "shown"

InitPlugin ==
  /\ IdleParse
  /\ IdleAgg
  /\ IdleClassify
  /\ IdleContent
  /\ IdleDate
  /\ zone = "UTC"
  /\ now = 0
  /\ NewPlugin

\* The code block processor calls showTasks(src, el): collectTasksIfNeeded
\* runs up to its return, its throw or its first await of a file read.
ShowTasksCall(c) ==
  /\ calls[c].pc = "idle"
  /\ IF c = 1 THEN TRUE ELSE calls[c - 1].pc # "idle"
  /\ \E key \in RootPathSets, found \in BOOLEAN :
       \E skip \in {Debounced(latestUpdateTimes[key], now)} :
         /\ decisions' = [decisions EXCEPT ![c] =
                            <<[key |-> key, at |-> now, skipped |-> skip,
                               completed |-> completedAt[key]]>>]
         /\ IF skip
            THEN /\ calls' = [calls EXCEPT ![c] =
                                [pc |-> AfterCollect(tasksByRoot, key), key |-> key,
                                 tasks |-> <<>>, read |-> 0]]
                 /\ UNCHANGED latestUpdateTimes
            ELSE /\ latestUpdateTimes' = [latestUpdateTimes EXCEPT ![key] = <<now>>]
                 /\ calls' = [calls EXCEPT ![c] =
                                [pc |-> IF found THEN "reading" ELSE "failed",
                                 key |-> key, tasks |-> <<>>, read |-> 0]]
  /\ UNCHANGED <<now, tasksByRoot, completedAt>>
  /\ UNCHANGED <<parseVars, aggVars, zone, classVars, contentVars, dateVars>>

\* await this.app.vault.cachedRead(child) resolves: the file is parsed and
\* added; after the last file the tree is stored and showTasks goes on.
FileRead(c) ==
  /\ calls[c].pc = "reading"
  /\ \E out \in ParseOutcomes :
       \E tasks \in {IF out = "tasks" THEN Append(calls[c].tasks, calls[c].read + 1)
                     ELSE calls[c].tasks} :
         IF out = "throws"
         THEN /\ calls' = [calls EXCEPT ![c].pc = "failed"]
              /\ UNCHANGED <<tasksByRoot, completedAt>>
         ELSE IF calls[c].read + 1 < MaxFiles
         THEN /\ calls' = [calls EXCEPT ![c].tasks = tasks, ![c].read = @ + 1]
              /\ UNCHANGED <<tasksByRoot, completedAt>>
         ELSE /\ tasksByRoot' = [tasksByRoot EXCEPT ![calls[c].key] = <<tasks>>]
              /\ completedAt' = [completedAt EXCEPT ![calls[c].key] = <<now>>]
              /\ calls' = [calls EXCEPT ![c].tasks = tasks, ![c].read = @ + 1,
                                        ![c].pc = AfterCollect(tasksByRoot', calls[c].key)]
  /\ UNCHANGED <<now, latestUpdateTimes, decisions>>
  /\ UNCHANGED <<parseVars, aggVars, zone, classVars, contentVars, dateVars>>

\* Half a second passes.
Tick ==
  /\ now < MaxTicks * TickMillis
  /\ now' = now + TickMillis
  /\ UNCHANGED <<latestUpdateTimes, tasksByRoot, calls, completedAt, decisions>>
  /\ UNCHANGED <<parseVars, aggVars, zone, classVars, contentVars, dateVars>>

NextPlugin ==
  \/ \E c \in CallIds : ShowTasksCall(c)
  \/ \E c \in CallIds : FileRead(c)
  \/ Tick

SpecPlugin == InitPlugin /\ [][NextPlugin]_vars

\* C24: collectTasksIfNeeded skips the re-collection for a root-path set if
\* and only if the last collection for the same root-path set completed
\* less than 1 second before the request; in every other case it runs a
\* full re-collection.
C24_SkipsIffCompletedWithinASecond ==
  \A c \in CallIds :
    decisions[c] # <<>> =>
      LET d == decisions[c][1]
          fresh == IF d.completed = <<>> THEN FALSE
                   ELSE d.at - d.completed[1] < DebounceMillis
      IN /\ d.skipped <=> fresh
         /\ ~d.skipped => calls[c].pc \in {"reading", "failed", "shown"}

\* C28: in every interleaving of showTasks calls for the same root-path set,
\* whenever collectTasksIfNeeded returns normally tasksMap holds a tree for
\* that root-path set, so showTasks never fails with "Cache may be broken.".
C28_NeverCacheBroken ==
  \A c \in CallIds : calls[c].pc # "broken"

\* ---------------------------------------------------------------- C25
\* The objects parseMDRootToTaskRoot made for the valid roots of the content:
\* one TaskDay per root that is a day, one TaskWeek per root that is a week.
ValidRootObjects == rootReturned[1].heap

\* C25: parseContentToTasks returns undefined if and only if the content has
\* no tasks, i.e. no hunk of the content has a root that classifies as a
\* valid day or a valid week; for content with at least one valid day root
\* or valid week root it returns the task aggregate.
C25_UndefinedIffNoValidRoot ==
  (kpc = "taskRoot" /\ ~rootReturned[1].thrown) =>
    (rootReturned[1].value = <<>> <=> ValidRootObjects = <<>>)

\* ---------------------------------------------------------------- C26
\* The loop is about to read a line whose level is lower than lastIndentLevel.
AtDescent ==
  /\ pc = "loop"
  /\ idx < Len(lines)
  /\ Aligned(idx + 1)
  /\ LevelOfLine(idx + 1) < lastIndentLevel

\* The node reached from node n over k parent links.
RECURSIVE ParentLinks(_, _, _)
ParentLinks(t, n, k) == IF k = 0 THEN n ELSE ParentLinks(t, t[n].parent, k - 1)

\* The step made the node of line idx + 1 the last child of node p.
AttachedTo(p) ==
  /\ tree'[idx + 1].parent = p
  /\ tree'[p].children = Append(tree[p].children, idx + 1)

\* C26 as stated: in parseListHunkToTree, when a line's level is lower than
\* lastIndentLevel, the new node is attached as a child of the node reached
\* by walking up exactly (lastIndentLevel - level) parent links from lastNode.
C26_AscentByLevelDifference ==
  [][ AtDescent =>
        AttachedTo(ParentLinks(tree, lastNode, lastIndentLevel - LevelOfLine(idx + 1)))
    ]_vars

\* C26, amended: when a line's level is lower than lastIndentLevel, the new
\* node is attached as the last child of the node reached by walking up
\* (lastIndentLevel - level) + 1 parent links from lastNode, that is
\* (lastIndentLevel - level) links from lastNode.parent.
C26_AscentFromParentOfLast ==
  [][ AtDescent =>
        AttachedTo(ParentLinks(tree, lastNode, lastIndentLevel - LevelOfLine(idx + 1) + 1))
    ]_vars

\* The loop has attached a line one level lower than the line before it.
C26_Witness ==
  /\ pc = "loop"
  /\ idx >= 2
  /\ LevelOfLine(idx) < LevelOfLine(idx - 1)
  /\ lastNode = idx
  /\ tree[idx].parent = tree[tree[idx - 1].parent].parent

\* ---------------------------------------------------------------- C27
\* The lines before line k whose level is one lower than the level of line k.
LinesOneLower(k) == { j \in 1..(k - 1) : LevelOfLine(j) = LevelOfLine(k) - 1 }

\* The node of the nearest preceding line one level lower, the sentinel root
\* for a line at level 0.
NearestOneLower(k) ==
  IF LevelOfLine(k) = 0 THEN ROOT ELSE SetMax(LinesOneLower(k))

\* The places of node k in the children list of node p.
PlacesIn(t, p, k) == { i \in 1..Len(t[p].children) : t[p].children[i] = k }

\* C27: in every tree returned by parseListHunkToTree, each node's depth
\* (sentinel root = depth 0) equals its line's indent level plus 1, each
\* node's parent is the node of the nearest preceding line whose level is one
\* lower (the sentinel root for level 0), and each node occurs exactly once
\* in its parent's children list.
C27_DepthParentAndChildOnce ==
  pc = "returned" =>
    \A k \in 1..Len(lines) :
      /\ Depth(tree, k) = LevelOfLine(k) + 1
      /\ IF LevelOfLine(k) = 0 THEN TRUE ELSE LinesOneLower(k) # {}
      /\ tree[k].parent = NearestOneLower(k)
      /\ Cardinality(PlacesIn(tree, tree[k].parent, k)) = 1
      /\ \A p \in DOMAIN tree \ {tree[k].parent} : PlacesIn(tree, p, k) = {}

\* A returned tree in which the nearest line one level lower is not the
\* first one: two roots, the second with a child.
C27_Witness ==
  /\ pc = "returned"
  /\ Len(lines) = 3
  /\ LevelOfLine(1) = 0 /\ LevelOfLine(2) = 0 /\ LevelOfLine(3) = 1
  /\ tree[3].parent = 2

\* ---------------------------------------------------------------- C29
\* The tree build of hunk h fails: malformed indentation or an indent jump.
BuildFails(h) ==
  parseListHunkToTree(hunks[h].lines, LinesBefore(hunks, h - 1)).thrown

FailingHunks == { h \in 1..Len(hunks) : BuildFails(h) }

\* The loop of parseContentToTasks over the hunks has begun.
InHunkLoop == kpc \in {"hunks", Thrown, "returned", "collected", "shown"}

checkTextString(checkText) ==
  IF checkText = Undefined
  THEN <<"u", "n", "d", "e", "f", "i", "n", "e", "d">>
  ELSE <<checkText>>

\* get rawText(): `[${this.checkText}] ${this.text}`
rawText(nd) == <<"[">> \o checkTextString(nd.checkText) \o <<"]", " ">> \o nd.text

\* MarkdownGenerator.enter(node, ctx): what it appends to this.markdown
enter(nd, ctx) == Repeat(<<" ", " ">>, ctx) \o <<"-", " ">> \o rawText(nd) \o <<"\n">>

\* node.visit(generator, ctx): the text the walk of the subtree of n appends,
\* the factory returned by enter handing ctx + 1 to every child.
RECURSIVE visitMarkdown(_, _, _)
visitMarkdown(t, n, ctx) ==
  enter(t[n], ctx)
    \o Concat([i \in 1..Len(t[n].children) |-> visitMarkdown(t, t[n].children[i], ctx + 1)])

\* MDListNode.generateMarkdown(initialIndentLevel) on node n of tree t
generateMarkdown(t, n, initialIndentLevel) == visitMarkdown(t, n, initialIndentLevel)

\* ---------------------------------------------------------------- C30
\* The list lines of the text md: every line of it but the empty one after
\* the last line break.
MarkdownLines(md) ==
  [k \in 1..(Len(Split(md, <<"\n">>)) - 1) |-> fromLine(Split(md, <<"\n">>)[k])[1]]

\* The tree parseListHunkToTree makes of the Markdown of node n.
Reparsed(t, n) == parseListHunkToTree(MarkdownLines(generateMarkdown(t, n, 0)), 0)

\* Position of node d in the pre-order walk of the subtree of n.
PlaceOf(t, n, d) == CHOOSE i \in 1..Len(PreOrder(t, n)) : PreOrder(t, n)[i] = d

\* Tree r, its nodes numbered in line order, has one root-level subtree, of
\* the structure of the subtree of n in t and with the same text and the
\* same checkbox state at every node.
SameSubtree(t, n, r) ==
  /\ DOMAIN r = 0..Len(PreOrder(t, n))
  /\ r[ROOT].children = <<1>>
  /\ \A i \in 1..Len(PreOrder(t, n)) :
       LET d == PreOrder(t, n)[i]
       IN /\ r[i].text = t[d].text
          /\ r[i].checkText = t[d].checkText
          /\ r[i].children = [j \in 1..Len(t[d].children) |-> PlaceOf(t, n, t[d].children[j])]

\* C30: round trip: for every node n of a tree produced by
\* parseListHunkToTree, parsing the Markdown returned by
\* n.generateMarkdown(0) yields a tree whose single root-level subtree has
\* the same structure as n's subtree and, at every node, the same text and
\* the same checkbox state (done, undone or none).
C30_MarkdownRoundTrip ==
  pc = "returned" =>
    \A n \in 1..Len(lines) :
      /\ ~Reparsed(tree, n).thrown
      /\ SameSubtree(tree, n, Reparsed(tree, n).root)

====
